---- MODULE Spec2Model ----
(***************************************************************************)
(* Model of the National Grid integration: the polling coordinator         *)
(* (custom_components/national_grid/coordinator.py) and the statistics     *)
(* importer (custom_components/national_grid/statistics.py).               *)
(*                                                                         *)
(* Python dicts are functions whose DOMAIN is the set of keys present,     *)
(* lists are sequences.  Time is counted in quarter hours since the epoch. *)
(***************************************************************************)
EXTENDS Integers, Sequences, FiniteSets, TLC

VARIABLES
    selfData,           \* coordinator.data: None or the published snapshot
    isFirstRefresh,     \* coordinator._is_first_refresh
    lastUpdateSuccess,  \* coordinator._last_update_success
    store,              \* recorder: statistic_id -> set of points
    now,                \* wall clock, in quarter hours
    cyc,                \* observation of the last coordinator operation
    imp,                \* observation of the last importer run
    polls,              \* polling cycles run so far (importer environment)
    host,               \* the config entry: its state, API client, listeners
    flow                \* the config flow in progress and the entry it made

vars == <<selfData, isFirstRefresh, lastUpdateSuccess, store, now, cyc, imp,
          polls, host, flow>>

(***************************************************************************)
(* Bounds of the model.                                                    *)
(***************************************************************************)
\* at most this many API calls raise in one polling cycle
MaxFaults == 1
\* the clock stops advancing after this many hours
MaxHours == 2
\* polling cycles of the importer environment
MaxPolls == 2

(***************************************************************************)
(* Generic helpers.                                                        *)
(***************************************************************************)
EmptyDict == <<>>

Put(d, k, v) == [y \in (DOMAIN d) \cup {k} |-> IF y = k THEN v ELSE d[y]]

\* dict.get(k, default)
Get(d, k, default) == IF k \in DOMAIN d THEN d[k] ELSE default

Range(s) == {s[i] : i \in DOMAIN s}

(***************************************************************************)
(* aionatgrid exception classes as used by the coordinator.                *)
(***************************************************************************)
ExcParent(e) ==
    CASE e = "CannotConnectError" -> "NationalGridError"
      [] e = "RetryExhaustedError" -> "NationalGridError"
      [] e = "InvalidAuthError" -> "NationalGridError"
      [] OTHER -> "Exception"

\* isinstance(e, cls)
IsInstance(e, cls) ==
    \/ e = cls
    \/ ExcParent(e) = cls
    \/ cls = "Exception"

\* does `except (classes)` catch e
Catches(classes, e) == \E c \in classes : IsInstance(e, c)

(***************************************************************************)
(* Data model (coordinator.py, dataclasses).                               *)
(***************************************************************************)
None == [none |-> TRUE]

Meter(sp, fuel, ami) ==
    [servicePointNumber |-> sp, fuelType |-> fuel, hasAmiSmartMeter |-> ami]

BillingAccount(region, premise, meters) ==
    [region |-> region, premiseNumber |-> premise, meter |-> meters]

NoBilling == BillingAccount("", "", <<>>)

MeterData(meter, account_id, billing_account) ==
    [meter |-> meter, account_id |-> account_id,
     billing_account |-> billing_account]

NationalGridCoordinatorData(accounts) ==
    [none |-> FALSE,
     accounts |-> accounts,
     ami_usages |-> EmptyDict,
     costs |-> EmptyDict,
     interval_reads |-> EmptyDict,
     meters |-> EmptyDict,
     usages |-> EmptyDict,
     is_first_refresh |-> FALSE]

(***************************************************************************)
(* The API client (aionatgrid) is the environment: every call either       *)
(* returns one of the values of the environment E or raises.               *)
(*   E.selected  : the entry's selected_accounts list                      *)
(*   E.billing   : account id -> set of billing accounts                   *)
(*   E.usages, E.costs, E.interval : sets of lists                         *)
(*   E.ami       : service point -> set of lists                           *)
(*   E.errors    : account id -> API method -> exception classes raised     *)
(* A call record keeps what one API call was asked (with the query window  *)
(* it was given) and what it answered.                                     *)
(***************************************************************************)
Call(api, acct, sp, first, window, exc, billing, list) ==
    [api |-> api, acct |-> acct, sp |-> sp, first |-> first,
     window |-> window, exc |-> exc, billing |-> billing, list |-> list]

\* get_billing_account takes no query window
NoWindow == [none |-> TRUE]

Faults(calls) == Cardinality({i \in DOMAIN calls : calls[i].exc # ""})

\* exception classes a call may raise now
Raisable(E, st, account_id, api) ==
    IF Faults(st.calls) < MaxFaults THEN E.errors[account_id][api] ELSE {}

\* state of a cycle in progress: the snapshot being built, the calls made,
\* the messages logged, the exception propagating (if any) and the flag
CycleState(data, flag, today, from_month) ==
    [data |-> data, calls |-> <<>>, log |-> <<>>, raised |-> "", flag |-> flag,
     today |-> today, from_month |-> from_month]

Called(st, c) == [st EXCEPT !.calls = Append(@, c)]

\* variant: nothing is logged during the fetch
LoggedNothing(st, msg) == st

Logged(st, msg) == [st EXCEPT !.log = Append(@, msg)]

\* variant: only the exhausted retries are handled
ConnectivityErrorsRetryOnly == {"RetryExhaustedError"}

ConnectivityErrors ==
    {"CannotConnectError", "RetryExhaustedError", "NationalGridError"}

(***************************************************************************)
(* Clock and calendar.  The clock counts quarter hours since               *)
(* 1970-01-01T00:00 UTC, a date is its number of days since 1970-01-01.    *)
(***************************************************************************)
QuartersPerHour == 4

QuartersPerDay == 24 * QuartersPerHour

\* datetime.now(tz=UTC).date()
Today(clock) == clock \div QuartersPerDay

\* date.year, date.month and date.day of a day number (proleptic Gregorian
\* calendar, in eras of 400 years that start on 1 March)
CivilFromDays(z) ==
    LET shifted == z + 719468
        era == shifted \div 146097
        doe == shifted - era * 146097
        yoe == (doe - doe \div 1460 + doe \div 36524 - doe \div 146096) \div 365
        doy == doe - (365 * yoe + yoe \div 4 - yoe \div 100)
        mp == (5 * doy + 2) \div 153
        month == IF mp < 10 THEN mp + 3 ELSE mp - 9
        year == yoe + era * 400 + (IF month <= 2 THEN 1 ELSE 0)
    IN  [year |-> year, month |-> month,
         day |-> doy - (153 * mp + 2) \div 5 + 1]

\* variant: the 12 month window in every mode
FromMonthTrailingYear(today, is_first_refresh) ==
    (CivilFromDays(today).year - 1) * 100 + CivilFromDays(today).month

\* from_month of the usage query
FromMonth(today, is_first_refresh) ==
    IF is_first_refresh
    THEN LET from_date == CivilFromDays(today - 465)
         IN  from_date.year * 100 + from_date.month
    ELSE (CivilFromDays(today).year - 1) * 100 + CivilFromDays(today).month

\* date_from and date_to of the AMI usage query
AmiDateRange(today, is_first_refresh) ==
    IF is_first_refresh
    THEN [date_from |-> today - 1825, date_to |-> today - 3]
    ELSE [date_from |-> today - 2, date_to |-> today]

\* start_dt of the interval read query; strftime("%Y-%m-%d %H:%M:%S")
\* keeps the seconds, so no quarter hour is lost
IntervalStart(clock, is_first_refresh) ==
    IF is_first_refresh
    THEN clock - 1825 * QuartersPerDay
    ELSE clock - 24 * QuartersPerHour

(***************************************************************************)
(* NationalGridDataUpdateCoordinator                                       *)
(***************************************************************************)
\* variant: the cycle starts from an empty snapshot
SeedFromNothing(prev) == NationalGridCoordinatorData(EmptyDict)

SeedFromPrevious(prev) ==
    IF prev = None
    THEN NationalGridCoordinatorData(EmptyDict)
    ELSE [none |-> FALSE,
          accounts |-> prev.accounts,
          ami_usages |-> prev.ami_usages,
          costs |-> prev.costs,
          interval_reads |-> prev.interval_reads,
          meters |-> prev.meters,
          usages |-> prev.usages,
          is_first_refresh |-> FALSE]

\* data.meters after the loop over meter_nodes[i..]
RECURSIVE ExtractMeters(_, _, _, _)
ExtractMeters(meters, account_id, billing_account, i) ==
    LET nodes == billing_account.meter
    IN  IF i > Len(nodes) THEN meters
        ELSE LET service_point == nodes[i].servicePointNumber
             IN  ExtractMeters(
                    IF service_point # ""
                    THEN Put(meters, service_point,
                             MeterData(nodes[i], account_id, billing_account))
                    ELSE meters,
                    account_id, billing_account, i + 1)

\* the set of states after _fetch_usages stored its result in data.usages
FetchUsages(E, st, account_id) ==
    LET handled == ConnectivityErrors \cup {"ValueError"}
    IN  { Called([st EXCEPT !.data.usages = Put(@, account_id, u)],
                 Call("get_energy_usages", account_id, "", st.data.is_first_refresh,
                      [from_month |-> st.from_month], "", NoBilling, u)) : u \in E.usages }
        \cup
        { LET c == Call("get_energy_usages", account_id, "",
                        st.data.is_first_refresh,
                        [from_month |-> st.from_month], e, NoBilling, <<>>)
          IN  IF Catches(handled, e)
              THEN Called([st EXCEPT !.data.usages = Put(@, account_id, <<>>)], c)
              ELSE Called([st EXCEPT !.raised = e], c)
          : e \in Raisable(E, st, account_id, "get_energy_usages") }

\* the set of states after _fetch_costs stored its result in data.costs
FetchCosts(E, st, account_id) ==
    LET handled == ConnectivityErrors \cup {"ValueError"}
        region == st.data.accounts[account_id].region
    IN  IF region = ""
        THEN { [st EXCEPT !.data.costs = Put(@, account_id, <<>>)] }
        ELSE
        { Called([st EXCEPT !.data.costs = Put(@, account_id, c)],
                 Call("get_energy_usage_costs", account_id, "",
                      st.data.is_first_refresh, [query_date |-> st.today],
                      "", NoBilling, c)) : c \in E.costs }
        \cup
        { LET c == Call("get_energy_usage_costs", account_id, "",
                        st.data.is_first_refresh, [query_date |-> st.today],
                        e, NoBilling, <<>>)
          IN  IF Catches(handled, e)
              THEN Called([st EXCEPT !.data.costs = Put(@, account_id, <<>>)], c)
              ELSE Called([st EXCEPT !.raised = e], c)
          : e \in Raisable(E, st, account_id, "get_energy_usage_costs") }

\* the AMI usage call of one meter of _fetch_ami_data
FetchAmiUsages(E, st, account_id, sp, is_first_refresh) ==
    { Called([st EXCEPT !.data.ami_usages = Put(@, sp, l)],
             Call("get_ami_energy_usages", account_id, sp, is_first_refresh,
                  AmiDateRange(st.today, is_first_refresh), "", NoBilling, l)) : l \in E.ami[sp] }
    \cup
    { LET c == Call("get_ami_energy_usages", account_id, sp, is_first_refresh,
                    AmiDateRange(st.today, is_first_refresh), e, NoBilling, <<>>)
      IN  IF Catches(ConnectivityErrors, e)
          THEN Called(st, c)
          ELSE Called([st EXCEPT !.raised = e], c)
      : e \in Raisable(E, st, account_id, "get_ami_energy_usages") }

\* the interval read call of one meter of _fetch_ami_data
FetchIntervalReads(E, st, account_id, sp, is_first_refresh) ==
    { Called([st EXCEPT !.data.interval_reads = Put(@, sp, l)],
             Call("get_interval_reads", account_id, sp, is_first_refresh,
                  [start_datetime |-> IntervalStart(now, is_first_refresh)],
                  "", NoBilling, l)) : l \in E.interval }
    \cup
    { LET c == Call("get_interval_reads", account_id, sp, is_first_refresh,
                    [start_datetime |-> IntervalStart(now, is_first_refresh)],
                    e, NoBilling, <<>>)
      IN  IF Catches(ConnectivityErrors, e)
          THEN Called(st, c)
          ELSE Called([st EXCEPT !.raised = e], c)
      : e \in Raisable(E, st, account_id, "get_interval_reads") }

\* variant: the AMI flag of the meter is not looked at
FetchAmiMeterAll(E, st, account_id, meter, is_first_refresh) ==
    LET sp == meter.servicePointNumber
    IN  IF sp = ""
        THEN {st}
        ELSE UNION {
               IF s1.raised # "" \/ meter.fuelType = "Gas"
               THEN {s1}
               ELSE FetchIntervalReads(E, s1, account_id, sp, is_first_refresh)
               : s1 \in FetchAmiUsages(E, st, account_id, sp, is_first_refresh) }

\* the body of the loop of _fetch_ami_data for one meter
FetchAmiMeter(E, st, account_id, meter, is_first_refresh) ==
    LET sp == meter.servicePointNumber
    IN  IF ~meter.hasAmiSmartMeter \/ sp = ""
        THEN {st}
        ELSE UNION {
               IF s1.raised # "" \/ meter.fuelType = "Gas"
               THEN {s1}
               ELSE FetchIntervalReads(E, s1, account_id, sp, is_first_refresh)
               : s1 \in FetchAmiUsages(E, st, account_id, sp, is_first_refresh) }

\* _fetch_ami_data from meter_nodes[i] on
RECURSIVE FetchAmiData(_, _, _, _, _, _)
FetchAmiData(E, st, account_id, meter_nodes, i, is_first_refresh) ==
    IF st.raised # "" \/ i > Len(meter_nodes)
    THEN {st}
    ELSE UNION { FetchAmiData(E, s1, account_id, meter_nodes, i + 1,
                              is_first_refresh)
                 : s1 \in FetchAmiMeter(E, st, account_id, meter_nodes[i],
                                        is_first_refresh) }

\* variant: the AMI data are always fetched in the incremental mode
FetchAccountDataIncremental(E, st, account_id) ==
    LET billed ==
          { LET withAccount ==
                    [st EXCEPT !.data.accounts = Put(@, account_id, b)]
            IN  Called([withAccount EXCEPT !.data.meters =
                            ExtractMeters(@, account_id, b, 1)],
                       Call("get_billing_account", account_id, "",
                            st.data.is_first_refresh, NoWindow, "", b, <<>>))
            : b \in E.billing[account_id] }
          \cup
          { Called([st EXCEPT !.raised = e],
                   Call("get_billing_account", account_id, "",
                        st.data.is_first_refresh, NoWindow, e, NoBilling, <<>>))
            : e \in Raisable(E, st, account_id, "get_billing_account") }
        withUsages ==
          UNION { IF s.raised # "" THEN {s} ELSE FetchUsages(E, s, account_id)
                  : s \in billed }
        withCosts ==
          UNION { IF s.raised # "" THEN {s} ELSE FetchCosts(E, s, account_id)
                  : s \in withUsages }
    IN  UNION { IF s.raised # "" THEN {s}
                ELSE FetchAmiData(E, s, account_id,
                                  s.data.accounts[account_id].meter, 1,
                                  FALSE)
                : s \in withCosts }

\* the set of states _fetch_account_data can end in (raised # "": it raised)
FetchAccountData(E, st, account_id) ==
    LET billed ==
          { LET withAccount ==
                    [st EXCEPT !.data.accounts = Put(@, account_id, b)]
            IN  Called([withAccount EXCEPT !.data.meters =
                            ExtractMeters(@, account_id, b, 1)],
                       Call("get_billing_account", account_id, "",
                            st.data.is_first_refresh, NoWindow, "", b, <<>>))
            : b \in E.billing[account_id] }
          \cup
          { Called([st EXCEPT !.raised = e],
                   Call("get_billing_account", account_id, "",
                        st.data.is_first_refresh, NoWindow, e, NoBilling, <<>>))
            : e \in Raisable(E, st, account_id, "get_billing_account") }
        withUsages ==
          UNION { IF s.raised # "" THEN {s} ELSE FetchUsages(E, s, account_id)
                  : s \in billed }
        withCosts ==
          UNION { IF s.raised # "" THEN {s} ELSE FetchCosts(E, s, account_id)
                  : s \in withUsages }
    IN  UNION { IF s.raised # "" THEN {s}
                ELSE FetchAmiData(E, s, account_id,
                                  s.data.accounts[account_id].meter, 1,
                                  s.data.is_first_refresh)
                : s \in withCosts }

\* variant: the loop ends at the first account whose fetch fails
RECURSIVE FetchAccountsStop(_, _, _)
FetchAccountsStop(E, st, i) ==
    IF st.raised # "" \/ i > Len(E.selected)
    THEN {st}
    ELSE UNION {
           IF s.raised = ""
           THEN FetchAccountsStop(E, s, i + 1)
           ELSE IF IsInstance(s.raised, "InvalidAuthError")
           THEN {s}
           ELSE IF Catches(ConnectivityErrors, s.raised)
           THEN {Logged([s EXCEPT !.raised = ""],
                        <<"warning", "Error fetching data for account",
                          E.selected[i]>>)}
           ELSE {s}
           : s \in FetchAccountData(E, st, E.selected[i]) }

\* the loop of _fetch_all_data over selected_accounts[i..]
RECURSIVE FetchAccounts(_, _, _)
FetchAccounts(E, st, i) ==
    IF st.raised # "" \/ i > Len(E.selected)
    THEN {st}
    ELSE UNION {
           IF s.raised = ""
           THEN FetchAccounts(E, s, i + 1)
           ELSE IF IsInstance(s.raised, "InvalidAuthError")
           THEN {s}
           ELSE IF Catches(ConnectivityErrors, s.raised)
           THEN FetchAccounts(E,
                    Logged([s EXCEPT !.raised = ""],
                           <<"warning", "Error fetching data for account",
                             E.selected[i]>>),
                    i + 1)
           ELSE {s}
           : s \in FetchAccountData(E, st, E.selected[i]) }

\* variant: the first-refresh flag is never cleared
FetchAllDataKeepFlag(E, prev, flag) ==
    LET seeded == [SeedFromPrevious(prev) EXCEPT !.is_first_refresh = flag]
        today == Today(now)
        started == CycleState(seeded, flag, today, FromMonth(today, flag))
        st0 == IF flag
               THEN Logged(started, <<"info", "First refresh", "">>)
               ELSE started
    IN  FetchAccounts(E, st0, 1)

\* the set of states _fetch_all_data can end in
FetchAllData(E, prev, flag) ==
    LET seeded == [SeedFromPrevious(prev) EXCEPT !.is_first_refresh = flag]
        today == Today(now)
        started == CycleState(seeded, flag, today, FromMonth(today, flag))
        st0 == IF flag
               THEN Logged(started, <<"info", "First refresh", "">>)
               ELSE started
    IN  { IF s.raised = "" /\ s.flag
          THEN Logged([s EXCEPT !.flag = FALSE],
                      <<"info", "First refresh complete", "">>)
          ELSE s
          : s \in FetchAccounts(E, st0, 1) }

\* variant: the warning is logged in every failing cycle
UnavailableLogAlways(log, last_update_success) ==
    Append(log, <<"warning", "National Grid service unavailable", "">>)

\* `if self._last_update_success: _LOGGER.warning(...)`
UnavailableLog(log, last_update_success) ==
    IF last_update_success
    THEN Append(log, <<"warning", "National Grid service unavailable", "">>)
    ELSE log

\* variant: the recovery is logged after every cycle that returns
RecoveredLogAlways(log, last_update_success) ==
    Append(log, <<"info", "National Grid service recovered", "">>)

\* `if not self._last_update_success: _LOGGER.info(...)`
RecoveredLog(log, last_update_success) ==
    IF last_update_success
    THEN log
    ELSE Append(log, <<"info", "National Grid service recovered", "">>)

\* variant: the cycle works on the dictionaries of the published snapshot,
\* so that its partial work shows when it aborts
UpdateWithShared(s) ==
    /\ isFirstRefresh' = s.flag
    /\ IF s.raised = ""
       THEN /\ selfData' = s.data
            /\ lastUpdateSuccess' = TRUE
            /\ cyc' = [op |-> "update", outcome |-> "ok", calls |-> s.calls,
                       log |-> RecoveredLog(s.log, lastUpdateSuccess)]
       ELSE IF IsInstance(s.raised, "InvalidAuthError")
       THEN /\ selfData' = s.data
            /\ lastUpdateSuccess' = lastUpdateSuccess
            /\ cyc' = [op |-> "update", outcome |-> "ConfigEntryAuthFailed",
                       calls |-> s.calls, log |-> s.log]
       ELSE IF Catches(ConnectivityErrors, s.raised)
       THEN /\ selfData' = selfData
            /\ lastUpdateSuccess' = FALSE
            /\ cyc' = [op |-> "update", outcome |-> "UpdateFailed",
                       calls |-> s.calls,
                       log |-> UnavailableLog(s.log, lastUpdateSuccess)]
       ELSE /\ selfData' = selfData
            /\ lastUpdateSuccess' = lastUpdateSuccess
            /\ cyc' = [op |-> "update", outcome |-> s.raised,
                       calls |-> s.calls, log |-> s.log]
    /\ imp' = IF s.raised = "" THEN [imp EXCEPT !.runs = 0] ELSE imp
    /\ UNCHANGED <<store, now>>

\* _async_update_data around the state s that _fetch_all_data ended in, and
\* the host publishing the returned snapshot
UpdateWith(s) ==
    /\ isFirstRefresh' = s.flag
    /\ IF s.raised = ""
       THEN /\ selfData' = s.data
            /\ lastUpdateSuccess' = TRUE
            /\ cyc' = [op |-> "update", outcome |-> "ok", calls |-> s.calls,
                       log |-> RecoveredLog(s.log, lastUpdateSuccess)]
       ELSE IF IsInstance(s.raised, "InvalidAuthError")
       THEN /\ selfData' = selfData
            /\ lastUpdateSuccess' = lastUpdateSuccess
            /\ cyc' = [op |-> "update", outcome |-> "ConfigEntryAuthFailed",
                       calls |-> s.calls, log |-> s.log]
       ELSE IF Catches(ConnectivityErrors, s.raised)
       THEN /\ selfData' = selfData
            /\ lastUpdateSuccess' = FALSE
            /\ cyc' = [op |-> "update", outcome |-> "UpdateFailed",
                       calls |-> s.calls,
                       log |-> UnavailableLog(s.log, lastUpdateSuccess)]
       ELSE /\ selfData' = selfData
            /\ lastUpdateSuccess' = lastUpdateSuccess
            /\ cyc' = [op |-> "update", outcome |-> s.raised,
                       calls |-> s.calls, log |-> s.log]
    /\ imp' = IF s.raised = "" THEN [imp EXCEPT !.runs = 0] ELSE imp
    /\ UNCHANGED <<store, now>>

\* _async_update_data
AsyncUpdateData(E) ==
    \E s \in FetchAllData(E, selfData, isFirstRefresh) : UpdateWith(s)

\* _fetch_all_data replaced by a stub that raises, the way
\* tests/test_coordinator.py drives _async_update_data: the coordinator's
\* own _fetch_all_data lets no connectivity error out of its account loop
FetchAllDataStub(prev, flag) ==
    { [CycleState(SeedFromPrevious(prev), flag, Today(now),
                  FromMonth(Today(now), flag)) EXCEPT !.raised = e]
      : e \in ConnectivityErrors }

\* _async_update_data with either _fetch_all_data
AsyncUpdateDataStubbed(E) ==
    \E s \in FetchAllData(E, selfData, isFirstRefresh)
                \cup FetchAllDataStub(selfData, isFirstRefresh) : UpdateWith(s)

\* variant: the reset only logs
ResetToFirstRefreshLogOnly ==
    /\ isFirstRefresh' = isFirstRefresh
    /\ cyc' = [op |-> "reset", outcome |-> "ok", calls |-> <<>>,
               log |-> << <<"info", "Resetting coordinator to first refresh mode", "">> >>]
    /\ UNCHANGED <<selfData, lastUpdateSuccess, store, now, imp, polls, host,
                   flow>>

ResetToFirstRefresh ==
    /\ isFirstRefresh' = TRUE
    /\ cyc' = [op |-> "reset", outcome |-> "ok", calls |-> <<>>,
               log |-> << <<"info", "Resetting coordinator to first refresh mode", "">> >>]
    /\ UNCHANGED <<selfData, lastUpdateSuccess, store, now, imp, polls, host,
                   flow>>

(***************************************************************************)
(* Query helpers.  An optional string argument is None or Some(string).    *)
(***************************************************************************)
Some(value) == [none |-> FALSE, value |-> value]

\* `if fuel_type:` is false for None and for the empty string
Truthy(fuel_type) == fuel_type # None /\ fuel_type.value # ""

\* str.upper() on the labels and type names in use
Upper(str) ==
    CASE str \in {"Electric", "electric", "ELECTRIC"} -> "ELECTRIC"
      [] str \in {"Gas", "gas", "GAS"} -> "GAS"
      [] str \in {"Solar", "SOLAR"} -> "SOLAR"
      [] str \in {"total_kwh", "TOTAL_KWH"} -> "TOTAL_KWH"
      [] str \in {"Therms", "therms", "THERMS"} -> "THERMS"

\* variant: the label is upper-cased before it is looked up
UsageTypeOfUpper(fuel_type) ==
    CASE Upper(fuel_type) = "ELECTRIC" -> "TOTAL_KWH"
      [] Upper(fuel_type) = "GAS" -> "THERMS"
      [] OTHER -> Upper(fuel_type)

\* usage_type_map.get(fuel_type, fuel_type.upper())
UsageTypeOf(fuel_type) ==
    CASE fuel_type = "Electric" -> "TOTAL_KWH"
      [] fuel_type = "Gas" -> "THERMS"
      [] OTHER -> Upper(fuel_type)

\* variant: the lowest key wins
MaxByLowest(list, key) ==
    list[CHOOSE i \in DOMAIN list : \A j \in DOMAIN list :
            \/ Get(list[i], key, 0) < Get(list[j], key, 0)
            \/ Get(list[i], key, 0) = Get(list[j], key, 0) /\ i <= j]

\* max(list, key=lambda r: r.get(key, 0)) of a list that is not empty: the
\* first of the records with the greatest key
MaxBy(list, key) ==
    list[CHOOSE i \in DOMAIN list : \A j \in DOMAIN list :
            \/ Get(list[j], key, 0) < Get(list[i], key, 0)
            \/ Get(list[j], key, 0) = Get(list[i], key, 0) /\ i <= j]

\* [u for u in account_usages if u.get("usageType") == usage_type]
UsagesOfType(account_usages, usage_type) ==
    LET Matches(u) == Get(u, "usageType", "") = usage_type
    IN  SelectSeq(account_usages, Matches)

\* [c for c in account_costs if c.get("fuelType") == fuel_type
\*                              or c.get("fuelType") == fuel_type.upper()]
CostsOfFuel(account_costs, fuel_type) ==
    LET Matches(c) == \/ Get(c, "fuelType", "") = fuel_type
                      \/ Get(c, "fuelType", "") = Upper(fuel_type)
    IN  SelectSeq(account_costs, Matches)

GetLatestUsage(data, account_id, fuel_type) ==
    IF data = None THEN None
    ELSE LET account_usages == Get(data.usages, account_id, <<>>)
             filtered == IF Truthy(fuel_type)
                         THEN UsagesOfType(account_usages,
                                           UsageTypeOf(fuel_type.value))
                         ELSE account_usages
         IN  IF account_usages = <<>> \/ filtered = <<>> THEN None
             ELSE MaxBy(filtered, "usageYearMonth")

GetLatestCost(data, account_id, fuel_type) ==
    IF data = None THEN None
    ELSE LET account_costs == Get(data.costs, account_id, <<>>)
             filtered == IF Truthy(fuel_type)
                         THEN CostsOfFuel(account_costs, fuel_type.value)
                         ELSE account_costs
         IN  IF account_costs = <<>> \/ filtered = <<>> THEN None
             ELSE MaxBy(filtered, "month")

GetAllUsages(data, account_id, fuel_type) ==
    IF data = None THEN <<>>
    ELSE LET account_usages == Get(data.usages, account_id, <<>>)
         IN  IF account_usages = <<>> THEN <<>>
             ELSE IF Truthy(fuel_type)
             THEN UsagesOfType(account_usages, UsageTypeOf(fuel_type.value))
             ELSE account_usages

GetAllCosts(data, account_id, fuel_type) ==
    IF data = None THEN <<>>
    ELSE LET account_costs == Get(data.costs, account_id, <<>>)
         IN  IF account_costs = <<>> THEN <<>>
             ELSE IF Truthy(fuel_type)
             THEN CostsOfFuel(account_costs, fuel_type.value)
             ELSE account_costs

\* a call of a query helper by an entity: nothing changes but the
\* observation of the call
Queried(helper, account_id, fuel_type, result) ==
    /\ cyc' = [op |-> "query", outcome |-> "ok", calls |-> <<>>, log |-> <<>>,
               helper |-> helper, account_id |-> account_id,
               fuel_type |-> fuel_type, result |-> result]
    /\ UNCHANGED <<selfData, isFirstRefresh, lastUpdateSuccess, store, now,
                   imp, polls, host, flow>>

(***************************************************************************)
(* Readings.  A date string is coded as an integer: EmptyDate is "",       *)
(* BadDate is a string datetime.fromisoformat rejects, a positive number   *)
(* is the ISO string of that quarter hour (UTC).                           *)
(***************************************************************************)
EmptyDate == 0
BadDate == -1

AmiReading(date, quantity) == [date |-> date, quantity |-> quantity]

IntervalRead(startTime, value) == [startTime |-> startTime, value |-> value]

\* hours of the AMI cutoff
CutoffHours == 48

\* variant: the timestamp is not truncated to the hour
HourStartKeep(t) == t

\* dt.replace(minute=0, second=0, microsecond=0)
HourStart(t) == (t \div QuartersPerHour) * QuartersPerHour

\* variant: the later date string sorts first
DateKeyDescending(d) == IF d = BadDate THEN 1000000 ELSE 0 - d

\* order of the date strings: "" first, digits before letters
DateKey(d) == IF d = BadDate THEN 1000000 ELSE d

\* sorted(readings, key=lambda r: str(r.get("date", ""))), a stable sort
RECURSIVE InsertSorted(_, _)
InsertSorted(sorted, r) ==
    IF sorted = <<>> THEN <<r>>
    ELSE IF DateKey(sorted[Len(sorted)].date) <= DateKey(r.date)
    THEN Append(sorted, r)
    ELSE Append(InsertSorted(SubSeq(sorted, 1, Len(sorted) - 1), r),
                sorted[Len(sorted)])

RECURSIVE SortedByDate(_)
SortedByDate(readings) ==
    IF readings = <<>> THEN <<>>
    ELSE InsertSorted(SortedByDate(SubSeq(readings, 1, Len(readings) - 1)),
                      readings[Len(readings)])

\* variant: the sign of a returned quantity is kept
AbsKeep(x) == x

\* abs()
Abs(x) == IF x < 0 THEN -x ELSE x

\* const.therms_to_ccf: round(therms * 1.038, 2); quantities are whole
\* therms here and the result is in hundredths of a CCF
THERM_TO_CCF_MILLI == 1038

\* variant: the quantity is stored as it came, in hundredths
ThermsToCcfKeep(therms) == 100 * therms

ThermsToCcf(therms) ==
    LET scaled == Abs(therms) * THERM_TO_CCF_MILLI
        rounded == (scaled + 5) \div 10
    IN  IF therms < 0 THEN -rounded ELSE rounded

(***************************************************************************)
(* The recorder's statistics store.                                        *)
(***************************************************************************)
DOMAIN_NAME == "national_grid"

\* variant: one id for all the series of a service point
StatisticIdShared(service_point, variant) ==
    DOMAIN_NAME \o ":" \o service_point \o "_usage"

\* f"{DOMAIN}:{service_point}_{fuel}_hourly_usage" and its siblings; variant
\* is the part of the string after the service point and its underscore
StatisticId(service_point, variant) ==
    DOMAIN_NAME \o ":" \o service_point \o "_" \o variant

StatisticData(start, state, sum) == [start |-> start, state |-> state, sum |-> sum]

Points(st, statistic_id) == Get(st, statistic_id, {})

\* get_last_statistics(hass, 1, statistic_id, ...): the row of the latest start
GetLastStatistics(st, statistic_id) ==
    LET rows == Points(st, statistic_id)
    IN  IF rows = {} THEN <<>>
        ELSE << CHOOSE r \in rows : \A o \in rows : o.start <= r.start >>

\* async_add_external_statistics: upsert of the points, keyed by start
AddExternalStatistics(st, statistic_id, stats) ==
    LET starts == {stats[i].start : i \in DOMAIN stats}
        kept == {r \in Points(st, statistic_id) : r.start \notin starts}
        written == { stats[i] : i \in
                       {j \in DOMAIN stats :
                          \A k \in DOMAIN stats :
                             stats[k].start = stats[j].start => k <= j} }
    IN  Put(st, statistic_id, kept \cup written)

(***************************************************************************)
(* statistics.py.  An importer state is the store together with the        *)
(* reads and the upserts made so far.                                      *)
(***************************************************************************)
ImportState(st) == [store |-> st, reads |-> <<>>, upserts |-> <<>>]

Upsert(statistic_id, stats, last_sum, last_ts, cutoff_ts, first) ==
    [statistic_id |-> statistic_id, stats |-> stats, last_sum |-> last_sum,
     last_ts |-> last_ts, cutoff_ts |-> cutoff_ts, first |-> first]

\* variant: no cutoff at all
CutoffTsNever(clock, is_first_refresh) == 0

\* cutoff_ts: 48 hours before the clock, except on the first refresh
CutoffTs(clock, is_first_refresh) ==
    IF ~is_first_refresh
    THEN clock - CutoffHours * QuartersPerHour
    ELSE 0

\* variant: the running sum restarts at zero
LastSumZero(last) == 0

\* last_sum and last_ts out of the rows get_last_statistics returned
LastSum(last) == IF last # <<>> THEN last[1].sum ELSE 0

\* variant: the start of the last stored point is not looked at
LastTsZero(last) == 0

LastTs(last) == IF last # <<>> THEN last[1].start ELSE 0

\* variant: the last imported hour is imported again
AlreadyImportedStrict(ts, last_ts) == ts < last_ts

\* `if dt.timestamp() <= last_ts: continue`
AlreadyImported(ts, last_ts) == ts <= last_ts

\* `if not is_first_refresh and dt.timestamp() < cutoff_ts: continue`
OlderThanCutoff(ts, cutoff_ts, is_first_refresh) ==
    ~is_first_refresh /\ ts < cutoff_ts

\* variant: no reading is left out because of its sign
FilteredOutNever(quantity, consumption_only, return_only) == FALSE

\* the consumption_only / return_only filter
FilteredOut(quantity, consumption_only, return_only) ==
    \/ consumption_only /\ quantity < 0
    \/ return_only /\ quantity >= 0

\* variant: an upsert is made whatever the list holds
NothingToImportNever(stats) == FALSE

\* `if not stats: return`
NothingToImport(stats) == stats = <<>>

\* the loop of _import_hourly_stats over sorted_readings[i..]
RECURSIVE HourlyStats(_, _, _, _, _, _, _, _, _, _)
HourlyStats(sorted_readings, i, stats, running_sum, last_ts, cutoff_ts, is_gas, is_first_refresh, consumption_only, return_only) ==
    IF i > Len(sorted_readings) THEN stats
    ELSE
    LET reading == sorted_readings[i]
        date_str == reading.date
        quantity == IF return_only THEN Abs(reading.quantity) ELSE reading.quantity
        dt == HourStart(date_str)
        skip == \/ date_str = EmptyDate
                \/ FilteredOut(reading.quantity, consumption_only, return_only)
                \/ date_str = BadDate
                \/ AlreadyImported(dt, last_ts)
                \/ OlderThanCutoff(dt, cutoff_ts, is_first_refresh)
        value == IF is_gas THEN ThermsToCcf(quantity) ELSE quantity
    IN  IF skip
        THEN HourlyStats(sorted_readings, i + 1, stats, running_sum, last_ts,
                         cutoff_ts, is_gas, is_first_refresh,
                         consumption_only, return_only)
        ELSE HourlyStats(sorted_readings, i + 1,
                         Append(stats, StatisticData(dt, value, running_sum + value)),
                         running_sum + value, last_ts, cutoff_ts, is_gas,
                         is_first_refresh, consumption_only, return_only)

ImportHourlyStats(ist, clock, service_point, readings, is_gas, is_first_refresh, consumption_only, return_only) ==
    LET statistic_id ==
            IF is_gas THEN StatisticId(service_point, "gas_hourly_usage")
            ELSE IF return_only
            THEN StatisticId(service_point, "electric_return_hourly_usage")
            ELSE StatisticId(service_point, "electric_hourly_usage")
        cutoff_ts == CutoffTs(clock, is_first_refresh)
        last == GetLastStatistics(ist.store, statistic_id)
        last_sum == LastSum(last)
        last_ts == LastTs(last)
        stats == HourlyStats(SortedByDate(readings), 1, <<>>, last_sum, last_ts,
                             cutoff_ts, is_gas, is_first_refresh,
                             consumption_only, return_only)
        read == [ist EXCEPT !.reads = Append(@, statistic_id)]
    IN  IF NothingToImport(stats)
        THEN read
        ELSE [read EXCEPT
                !.store = AddExternalStatistics(@, statistic_id, stats),
                !.upserts = Append(@, Upsert(statistic_id, stats, last_sum,
                                             last_ts, cutoff_ts,
                                             is_first_refresh))]

ImportHourlyStatsElectric(ist, clock, service_point, readings, is_first_refresh) ==
    LET consumed == ImportHourlyStats(ist, clock, service_point, readings, FALSE,
                                      is_first_refresh, TRUE, FALSE)
        has_negative == \E i \in DOMAIN readings : readings[i].quantity < 0
    IN  IF has_negative
        THEN ImportHourlyStats(consumed, clock, service_point, readings, FALSE,
                               is_first_refresh, FALSE, TRUE)
        ELSE consumed

\* variant: a read replaces what its hour held
BucketTotalLast(hourly_buckets, hour_start, value) == value

\* hourly_buckets.get(hour_start, 0.0) + value
BucketTotal(hourly_buckets, hour_start, value) ==
    Get(hourly_buckets, hour_start, 0) + value

\* variant: a start time that cannot be parsed ends the import of the list
\* with nothing bucketed
RECURSIVE HourlyBucketsAbort(_, _, _, _, _)
HourlyBucketsAbort(reads, i, hourly_buckets, consumption_only, return_only) ==
    IF i > Len(reads) THEN hourly_buckets
    ELSE
    LET read == reads[i]
        start_str == read.startTime
        value == IF return_only THEN Abs(read.value) ELSE read.value
        skip == \/ start_str = EmptyDate
                \/ FilteredOut(read.value, consumption_only, return_only)
        hour_start == HourStart(start_str)
    IN  IF ~skip /\ start_str = BadDate THEN EmptyDict
        ELSE HourlyBucketsAbort(reads, i + 1,
                      IF skip THEN hourly_buckets
                      ELSE Put(hourly_buckets, hour_start,
                               BucketTotal(hourly_buckets, hour_start, value)),
                      consumption_only, return_only)

\* the bucketing loop of _import_interval_stats over reads[i..]
RECURSIVE HourlyBuckets(_, _, _, _, _)
HourlyBuckets(reads, i, hourly_buckets, consumption_only, return_only) ==
    IF i > Len(reads) THEN hourly_buckets
    ELSE
    LET read == reads[i]
        start_str == read.startTime
        value == IF return_only THEN Abs(read.value) ELSE read.value
        skip == \/ start_str = EmptyDate
                \/ FilteredOut(read.value, consumption_only, return_only)
                \/ start_str = BadDate
        hour_start == HourStart(start_str)
    IN  HourlyBuckets(reads, i + 1,
                      IF skip THEN hourly_buckets
                      ELSE Put(hourly_buckets, hour_start,
                               BucketTotal(hourly_buckets, hour_start, value)),
                      consumption_only, return_only)

\* the loop `for hour_start in sorted(hourly_buckets)` over the hours left
RECURSIVE IntervalStats(_, _, _, _, _)
IntervalStats(hourly_buckets, hours, stats, running_sum, last_ts) ==
    IF hours = {} THEN stats
    ELSE
    LET hour_start == CHOOSE h \in hours : \A o \in hours : h <= o
        hour_total == hourly_buckets[hour_start]
    IN  IF AlreadyImported(hour_start, last_ts)
        THEN IntervalStats(hourly_buckets, hours \ {hour_start}, stats,
                           running_sum, last_ts)
        ELSE IntervalStats(hourly_buckets, hours \ {hour_start},
                           Append(stats, StatisticData(hour_start, hour_total,
                                                       running_sum + hour_total)),
                           running_sum + hour_total, last_ts)

ImportIntervalStats(ist, service_point, reads, is_first_refresh, consumption_only, return_only) ==
    LET statistic_id ==
            IF return_only
            THEN StatisticId(service_point, "electric_interval_return_usage")
            ELSE StatisticId(service_point, "electric_interval_usage")
        last == GetLastStatistics(ist.store, statistic_id)
        last_sum == LastSum(last)
        last_ts == LastTs(last)
        hourly_buckets == HourlyBuckets(reads, 1, EmptyDict, consumption_only,
                                        return_only)
        stats == IntervalStats(hourly_buckets, DOMAIN hourly_buckets, <<>>,
                               last_sum, last_ts)
        read == [ist EXCEPT !.reads = Append(@, statistic_id)]
    IN  IF NothingToImport(stats)
        THEN read
        ELSE [read EXCEPT
                !.store = AddExternalStatistics(@, statistic_id, stats),
                !.upserts = Append(@, Upsert(statistic_id, stats, last_sum,
                                             last_ts, 0, is_first_refresh))]

ImportIntervalStatsElectric(ist, service_point, reads, is_first_refresh) ==
    LET consumed == ImportIntervalStats(ist, service_point, reads,
                                        is_first_refresh, TRUE, FALSE)
        has_negative == \E i \in DOMAIN reads : reads[i].value < 0
    IN  IF has_negative
        THEN ImportIntervalStats(consumed, service_point, reads,
                                 is_first_refresh, FALSE, TRUE)
        ELSE consumed

\* variant: every meter is taken for an electric one
IsGasNever(fuel_type) == FALSE

\* `is_gas = fuel_type == "Gas"`
IsGas(fuel_type) == fuel_type = "Gas"

\* the loop `for sp, ami_readings in data.ami_usages.items()` over sps
RECURSIVE ImportAmi(_, _, _, _)
ImportAmi(ist, clock, data, sps) ==
    IF sps = {} THEN ist
    ELSE
    LET sp == CHOOSE x \in sps : TRUE
        ami_readings == data.ami_usages[sp]
        next == IF sp \notin DOMAIN data.meters
                THEN ist
                ELSE IF IsGas(data.meters[sp].meter.fuelType)
                THEN ImportHourlyStats(ist, clock, sp, ami_readings, TRUE,
                                       data.is_first_refresh, FALSE, FALSE)
                ELSE ImportHourlyStatsElectric(ist, clock, sp, ami_readings,
                                               data.is_first_refresh)
    IN  ImportAmi(next, clock, data, sps \ {sp})

\* the loop `for sp, reads in data.interval_reads.items()` over sps
RECURSIVE ImportIntervals(_, _, _)
ImportIntervals(ist, data, sps) ==
    IF sps = {} THEN ist
    ELSE
    LET sp == CHOOSE x \in sps : TRUE
    IN  ImportIntervals(
            ImportIntervalStatsElectric(ist, sp, data.interval_reads[sp],
                                        data.is_first_refresh),
            data, sps \ {sp})

\* async_import_all_statistics as a function of the store and the clock
ImportAllStatistics(st, clock, data) ==
    IF data = None THEN ImportState(st)
    ELSE ImportIntervals(
            ImportAmi(ImportState(st), clock, data, DOMAIN data.ami_usages),
            data, DOMAIN data.interval_reads)

\* a run of async_import_all_statistics on the published snapshot
ImportRun ==
    LET done == ImportAllStatistics(store, now, selfData)
    IN  /\ store' = done.store
        /\ imp' = [runs |-> IF imp.runs < 2 THEN imp.runs + 1 ELSE 2,
                   reads |-> done.reads, upserts |-> done.upserts]
        /\ UNCHANGED <<selfData, isFirstRefresh, lastUpdateSuccess, now, cyc,
                       polls>>

AsyncImportAllStatistics ==
    /\ ImportRun
    /\ UNCHANGED <<host, flow>>

(***************************************************************************)
(* The config entry (custom_components/nationalgrid/__init__.py).          *)
(*   state     : the host's ConfigEntryState, or the await that            *)
(*               async_setup_entry has reached                             *)
(*   client    : the NationalGridApiClient of runtime_data                 *)
(*   closes    : calls of client.close()                                   *)
(*   listeners : coordinator listeners registered                          *)
(*   unawaited : coroutine objects made by a listener call and dropped     *)
(*   fault     : the step of the setup that raised, and what it raised     *)
(*   raised    : what async_setup_entry raised                             *)
(***************************************************************************)
NoFault == [step |-> "", exc |-> ""]

NotSetUp ==
    [state |-> "not_loaded", client |-> "none", closes |-> 0, listeners |-> 0,
     unawaited |-> 0, fault |-> NoFault, raised |-> ""]



\* variant: the exception propagates and the client is left open
SetupFailedLeak(h, step, exc) ==
    [h EXCEPT !.state = IF exc = "ConfigEntryNotReady" THEN "setup_retry"
                        ELSE "setup_error",
              !.listeners = 0,
              !.fault = [step |-> step, exc |-> exc],
              !.raised = exc]

\* `except Exception: await client.close(); raise`, and the host taking the
\* exception: it runs the on-unload callbacks and sets the entry's state
SetupFailed(h, step, exc) ==
    [h EXCEPT !.state = IF exc = "ConfigEntryNotReady" THEN "setup_retry"
                        ELSE "setup_error",
              !.client = IF IsInstance(exc, "Exception") THEN "closed" ELSE @,
              !.closes = IF IsInstance(exc, "Exception") THEN @ + 1 ELSE @,
              !.listeners = 0,
              !.fault = [step |-> step, exc |-> exc],
              !.raised = exc]

\* what the steps after the first refresh may raise
SetupErrors == {"HomeAssistantError", "ValueError"}

\* async_setup_entry up to its first await: the client, the coordinator and
\* runtime_data are made
SetupStart ==
    /\ host.state \in {"not_loaded", "setup_error", "setup_retry"}
    /\ host' = [NotSetUp EXCEPT !.state = "first_refresh", !.client = "open"]
    /\ selfData' = None
    /\ isFirstRefresh' = TRUE
    /\ lastUpdateSuccess' = TRUE
    /\ cyc' = [op |-> "setup", outcome |-> "ok", calls |-> <<>>, log |-> <<>>]
    /\ UNCHANGED <<store, now, imp, polls, flow>>

\* what async_config_entry_first_refresh raises for the outcome of the cycle
FirstRefreshError(outcome) ==
    IF outcome = "ConfigEntryAuthFailed" THEN "ConfigEntryAuthFailed"
    ELSE "ConfigEntryNotReady"

\* await coordinator.async_config_entry_first_refresh()
SetupFirstRefresh(E) ==
    /\ host.state = "first_refresh"
    /\ AsyncUpdateData(E)
    /\ host' = IF cyc'.outcome = "ok"
               THEN [host EXCEPT !.state = "import"]
               ELSE SetupFailed(host, "first_refresh",
                                FirstRefreshError(cyc'.outcome))
    /\ UNCHANGED <<polls, flow>>

\* await async_import_statistics(hass, coordinator)
SetupImport ==
    /\ host.state = "import"
    /\ \/ /\ ImportRun
          /\ host' = [host EXCEPT !.state = "forward"]
       \/ \E e \in SetupErrors :
            /\ host' = SetupFailed(host, "import", e)
            /\ UNCHANGED <<selfData, isFirstRefresh, lastUpdateSuccess, store,
                           now, cyc, imp, polls>>
    /\ UNCHANGED flow

\* the listener is registered, the platforms are forwarded and the update
\* listener is registered
SetupForward ==
    /\ host.state = "forward"
    /\ \/ \E e \in SetupErrors :
            host' = SetupFailed(host, "add_listener", e)
       \/ \E e \in SetupErrors :
            host' = SetupFailed([host EXCEPT !.listeners = 1], "forward", e)
       \/ host' = [host EXCEPT !.state = "loaded", !.listeners = 1]
    /\ UNCHANGED <<selfData, isFirstRefresh, lastUpdateSuccess, store, now,
                   cyc, imp, polls, flow>>

\* the coordinator calls its listeners after a refresh:
\* _on_coordinator_update is a coroutine function, so the call makes a
\* coroutine object that nothing awaits
Notified(h) ==
    [h EXCEPT !.unawaited = IF h.listeners > 0 THEN 1 ELSE @]

\* the scheduled refresh of a loaded entry
ScheduledUpdate(E) ==
    /\ host.state = "loaded"
    /\ polls < MaxPolls
    /\ AsyncUpdateData(E)
    /\ polls' = polls + 1
    /\ host' = Notified(host)
    /\ UNCHANGED flow

\* async_unload_entry
AsyncUnloadEntry ==
    /\ host.state = "loaded"
    /\ \E unload_ok \in BOOLEAN :
          host' = [host EXCEPT
                     !.state = IF unload_ok THEN "not_loaded" ELSE "failed_unload",
                     !.listeners = IF unload_ok THEN 0 ELSE @,
                     !.client = "closed",
                     !.closes = @ + 1]
    /\ UNCHANGED <<selfData, isFirstRefresh, lastUpdateSuccess, store, now,
                   cyc, imp, polls, flow>>

\* DOMAIN of custom_components/nationalgrid/const.py, the one that
\* __init__.py imports
ENTRY_DOMAIN == "nationalgrid"

\* the statistic_ids list of async_remove_entry; has_data is whether
\* entry.runtime_data and its coordinator's data are there
StatisticIdsToClear(has_data, data) ==
    IF has_data /\ data # None
    THEN UNION { {ENTRY_DOMAIN \o ":" \o sp \o "_energy_usage",
                  ENTRY_DOMAIN \o ":" \o sp \o "_energy_cost"}
                 : sp \in DOMAIN data.meters }
    ELSE {}

\* clear_statistics(hass, statistic_ids)
ClearStatistics(st, statistic_ids) ==
    [id \in DOMAIN st \ statistic_ids |-> st[id]]

\* async_remove_entry, which the host calls after the unload; the host may
\* have dropped runtime_data with the unload
AsyncRemoveEntry ==
    /\ host.state \in {"not_loaded", "setup_error", "setup_retry"}
    /\ host.client # "none"
    /\ \E has_data \in BOOLEAN :
         LET statistic_ids == StatisticIdsToClear(has_data, selfData)
         IN  /\ store' = ClearStatistics(store, statistic_ids)
             /\ cyc' = [op |-> "remove", outcome |-> "ok", calls |-> <<>>,
                        log |-> <<>>, cleared |-> statistic_ids]
    /\ host' = [host EXCEPT !.state = "removed"]
    /\ UNCHANGED <<selfData, isFirstRefresh, lastUpdateSuccess, now, imp,
                   polls, flow>>

(***************************************************************************)
(* The config flow (custom_components/nationalgrid/config_flow.py).        *)
(*   step      : the form the flow waits at; "none" before a flow is       *)
(*               started, "finished" after it created an entry or aborted  *)
(*   username, password, accounts : the handler's fields (None is "")      *)
(*   input     : the user_input of the last step                           *)
(*   fetched   : what _fetch_accounts raised in the last step ("" if it    *)
(*               returned, "-" if it was not called)                       *)
(*   result    : the ConfigFlowResult of the last step                     *)
(*   entries   : the config entries of the domain, by unique id            *)
(*   reauth    : the unique id of the entry a reauth flow is about         *)
(***************************************************************************)
FlowResult(type, step_id, errors, reason) ==
    [type |-> type, step_id |-> step_id, errors |-> errors, reason |-> reason]

ShowForm(step_id, errors) == FlowResult("form", step_id, errors, "")

CreateEntry == FlowResult("create_entry", "", "", "")

Abort(reason) == FlowResult("abort", "", "", reason)

\* no flow has been started and no entry made
NoFlow ==
    [step |-> "none", username |-> "", password |-> "", accounts |-> <<>>,
     input |-> <<>>, fetched |-> "-", result |-> Abort(""),
     entries |-> EmptyDict, reauth |-> ""]

\* a fresh handler in front of the entries there are
NewHandler(entries) == [NoFlow EXCEPT !.entries = entries]

EntryData(username, password, selected_accounts) ==
    [username |-> username, password |-> password,
     selected_accounts |-> selected_accounts]

ConfigEntry(title, unique_id, data) ==
    [title |-> title, unique_id |-> unique_id, data |-> data]

\* slugify(username) on the user names in use
Slugify(username) ==
    CASE username \in {"Ann", "ann"} -> "ann"
      [] username \in {"Bob B", "bob-b"} -> "bob-b"

\* the errors["base"] that the except clauses of a step choose, in their
\* order; the three classes are the ones the module imports
FlowError(exc) ==
    IF exc = "NationalGridApiClientAuthenticationError" THEN "auth"
    ELSE IF exc = "NationalGridApiClientCommunicationError" THEN "connection"
    ELSE "unknown"

FlowErrors ==
    {"NationalGridApiClientAuthenticationError",
     "NationalGridApiClientCommunicationError", "NationalGridApiClientError"}

\* async_step_user without user_input: the form is shown
StartUserFlow ==
    /\ flow.step \in {"none", "finished"}
    /\ flow' = [NewHandler(flow.entries) EXCEPT
                  !.step = "user", !.result = ShowForm("user", "")]
    /\ UNCHANGED <<selfData, isFirstRefresh, lastUpdateSuccess, store, now,
                   cyc, imp, polls, host>>

\* the handler after async_step_user took a user_input and _fetch_accounts
\* returned accounts
UserAccountsFetched(f, accounts) ==
    LET unique_id == Slugify(f.username)
        fetched == [f EXCEPT !.accounts = accounts, !.fetched = ""]
    IN  IF unique_id \in DOMAIN f.entries
        THEN [fetched EXCEPT !.step = "finished",
                             !.result = Abort("already_configured")]
        ELSE IF Len(accounts) = 1
        THEN [fetched EXCEPT
                !.step = "finished",
                !.result = CreateEntry,
                !.entries = Put(@, unique_id,
                                ConfigEntry(f.username, unique_id,
                                    EntryData(f.username, f.password,
                                              <<accounts[1]>>)))]
        ELSE [fetched EXCEPT !.step = "select_accounts",
                             !.result = ShowForm("select_accounts", "")]

\* async_step_user with a user_input, as the first step of a new flow or as
\* the answer to the user form
AsyncStepUser(E) ==
    /\ flow.step \in {"none", "finished", "user"}
    /\ \E username \in E.usernames : \E password \in E.passwords :
         LET handler == IF flow.step = "user" THEN flow
                        ELSE NewHandler(flow.entries)
             asked == [handler EXCEPT
                         !.username = username, !.password = password,
                         !.input = <<username, password>>]
         IN  \/ \E accounts \in E.linked :
                  flow' = UserAccountsFetched(asked, accounts)
             \/ \E exc \in FlowErrors :
                  flow' = [asked EXCEPT
                             !.step = "user", !.fetched = exc,
                             !.result = ShowForm("user", FlowError(exc))]
    /\ UNCHANGED <<selfData, isFirstRefresh, lastUpdateSuccess, store, now,
                   cyc, imp, polls, host>>

\* variant: an empty selection is taken as it is
NoneSelectedNever(selected) == FALSE

\* `if not selected:`
NoneSelected(selected) == selected = <<>>

\* async_step_select_accounts with a user_input
SelectAccounts(f, selected) ==
    LET unique_id == Slugify(f.username)
        asked == [f EXCEPT !.input = selected, !.fetched = "-"]
    IN  IF NoneSelected(selected)
        THEN [asked EXCEPT
                !.result = ShowForm("select_accounts", "no_accounts_selected")]
        ELSE [asked EXCEPT
                !.step = "finished",
                !.result = CreateEntry,
                !.entries = Put(@, unique_id,
                                ConfigEntry(f.username, unique_id,
                                    EntryData(f.username, f.password,
                                              selected)))]

\* the lists the selector of the form lets through: the options in any
\* number, in the order of the form
RECURSIVE Selections(_)
Selections(options) ==
    IF options = <<>> THEN {<<>>}
    ELSE LET rest == Selections(SubSeq(options, 2, Len(options)))
         IN  rest \cup {<<options[1]>> \o r : r \in rest}

AsyncStepSelectAccounts ==
    /\ flow.step = "select_accounts"
    /\ \E selected \in Selections(flow.accounts) :
          flow' = SelectAccounts(flow, selected)
    /\ UNCHANGED <<selfData, isFirstRefresh, lastUpdateSuccess, store, now,
                   cyc, imp, polls, host>>

\* async_step_reauth: the host starts a reauth flow for an entry
AsyncStepReauth ==
    /\ flow.step \in {"none", "finished"}
    /\ \E unique_id \in DOMAIN flow.entries :
          flow' = [NewHandler(flow.entries) EXCEPT
                     !.step = "reauth_confirm",
                     !.username = flow.entries[unique_id].data.username,
                     !.reauth = unique_id,
                     !.result = ShowForm("reauth_confirm", "")]
    /\ UNCHANGED <<selfData, isFirstRefresh, lastUpdateSuccess, store, now,
                   cyc, imp, polls, host>>

\* variant: the entry data are made of the credentials alone
ReauthDataOnly(data, username, password) ==
    [username |-> username, password |-> password]

\* {**reauth_entry.data, CONF_USERNAME: username, CONF_PASSWORD: password}
ReauthData(data, username, password) ==
    Put(Put(data, "username", username), "password", password)

\* async_step_reauth_confirm with a user_input
AsyncStepReauthConfirm(E) ==
    /\ flow.step = "reauth_confirm"
    /\ \E username \in E.usernames : \E password \in E.passwords :
         LET asked == [flow EXCEPT !.input = <<username, password>>]
         IN  \/ \E accounts \in E.linked :
                  flow' = [asked EXCEPT
                             !.step = "finished",
                             !.fetched = "",
                             !.result = Abort("reauth_successful"),
                             !.entries[flow.reauth].data =
                                 ReauthData(@, username, password)]
             \/ \E exc \in FlowErrors :
                  flow' = [asked EXCEPT
                             !.fetched = exc,
                             !.result = ShowForm("reauth_confirm",
                                                 FlowError(exc))]
    /\ UNCHANGED <<selfData, isFirstRefresh, lastUpdateSuccess, store, now,
                   cyc, imp, polls, host>>

(***************************************************************************)
(* Environments.                                                           *)
(***************************************************************************)
ApiMethods ==
    {"get_billing_account", "get_energy_usages", "get_energy_usage_costs",
     "get_ami_energy_usages", "get_interval_reads"}

Usage(usageType, usageYearMonth) ==
    [usageType |-> usageType, usageYearMonth |-> usageYearMonth]

Cost(fuelType, month) == [fuelType |-> fuelType, month |-> month]

\* two accounts, small lists: the environment of the coordinator
CoordEnv ==
    [selected |-> <<"A1", "A2">>,
     billing |-> [a \in {"A1", "A2"} |->
        IF a = "A1"
        THEN {BillingAccount("NY", "P1", <<Meter("SP1", "Electric", TRUE)>>)}
        ELSE {BillingAccount("", "P2", <<Meter("SP2", "Gas", TRUE)>>),
              BillingAccount("", "P2", <<Meter("SP2", "Gas", TRUE),
                                         Meter("SP4", "Electric", FALSE),
                                         Meter("", "Electric", TRUE)>>)}],
     usages |-> {<<Usage("TOTAL_KWH", 202501)>>},
     costs |-> {<<Cost("ELECTRIC", 202501)>>},
     ami |-> [sp \in {"SP1", "SP2", "SP4"} |-> {<<AmiReading(8, 5)>>}],
     interval |-> {<<IntervalRead(8, 1)>>},
     errors |-> [a \in {"A1", "A2"} |-> [m \in ApiMethods |->
        IF a = "A2"
        THEN IF m = "get_billing_account"
             THEN {"CannotConnectError", "InvalidAuthError"}
             ELSE {}
        ELSE IF m = "get_billing_account"
        THEN {"RetryExhaustedError", "NationalGridError", "InvalidAuthError"}
        ELSE IF m = "get_energy_usages"
        THEN {"CannotConnectError", "InvalidAuthError", "ValueError"}
        ELSE {"CannotConnectError", "InvalidAuthError"}]]]

\* first clock value: the 48 hour cutoff starts at hour 2 (quarter 8)
StartClock == (CutoffHours + 2) * QuartersPerHour

\* one account with an electric and a gas smart meter; the reading lists
\* are unsorted, share an hour, are malformed, negative, partial or older
\* than the cutoff: the environment of the importer
StatsEnv ==
    [selected |-> <<"A1">>,
     billing |-> [a \in {"A1"} |->
        {BillingAccount("NY", "P1", <<Meter("SP1", "Electric", TRUE),
                                      Meter("SP2", "Gas", TRUE)>>)}],
     usages |-> {<<Usage("TOTAL_KWH", 202501)>>},
     costs |-> {<<Cost("ELECTRIC", 202501)>>},
     ami |-> [sp \in {"SP1", "SP2"} |->
        IF sp = "SP1"
        THEN {<<AmiReading(8, 5), AmiReading(4, 3)>>,
              <<AmiReading(4, 3), AmiReading(8, 5), AmiReading(9, 1),
                AmiReading(12, 2)>>,
              <<AmiReading(BadDate, 7), AmiReading(EmptyDate, 7),
                AmiReading(4, 3), AmiReading(12, -2)>>}
        ELSE {<<AmiReading(12, 3), AmiReading(8, 10)>>}],
     interval |-> {<<>>,
                   <<IntervalRead(8, 1)>>,
                   <<IntervalRead(9, 2), IntervalRead(8, 1),
                     IntervalRead(12, -1), IntervalRead(13, 4)>>,
                   <<IntervalRead(BadDate, -5), IntervalRead(EmptyDate, -5),
                     IntervalRead(12, -1)>>},
     errors |-> [a \in {"A1"} |-> [m \in ApiMethods |->
        IF m = "get_interval_reads" THEN {"CannotConnectError"} ELSE {}]]]

\* one account without meters; the usage and cost lists are unsorted, mix
\* the types and lack a type or everything: the environment of the query
\* helpers
QueryEnv ==
    [selected |-> <<"A1">>,
     billing |-> [a \in {"A1"} |-> {BillingAccount("NY", "P1", <<>>)}],
     usages |-> {<<>>,
                 <<Usage("TOTAL_KWH", 202501), Usage("TOTAL_KWH", 202412),
                   Usage("THERMS", 202501)>>,
                 <<Usage("THERMS", 202411), Usage("THERMS", 202412)>>},
     costs |-> {<<>>,
                <<Cost("ELECTRIC", 202501), Cost("GAS", 202501)>>,
                <<Cost("ELECTRIC", 202411), Cost("ELECTRIC", 202412),
                  Cost("GAS", 202410)>>},
     ami |-> [sp \in {} |-> {}],
     interval |-> {},
     errors |-> [a \in {"A1"} |-> [m \in ApiMethods |->
        IF m = "get_billing_account" THEN {"CannotConnectError"} ELSE {}]]]

\* one account with an electric smart meter that reports one more hour in
\* some cycles: the environment of the config entry
SetupEnv ==
    [selected |-> <<"A1">>,
     billing |-> [a \in {"A1"} |->
        {BillingAccount("NY", "P1", <<Meter("SP1", "Electric", TRUE)>>)}],
     usages |-> {<<Usage("TOTAL_KWH", 202501)>>},
     costs |-> {<<Cost("ELECTRIC", 202501)>>},
     ami |-> [sp \in {"SP1"} |->
        {<<AmiReading(8, 5)>>, <<AmiReading(8, 5), AmiReading(12, 2)>>}],
     interval |-> {<<>>, <<IntervalRead(12, 1)>>},
     errors |-> [a \in {"A1"} |-> [m \in ApiMethods |->
        IF m = "get_billing_account"
        THEN {"CannotConnectError", "InvalidAuthError"}
        ELSE {}]]]

\* one account with an electric smart meter whose provider reports an
\* earlier hour in some cycles only: the environment of the recovery
GapEnv ==
    [selected |-> <<"A1">>,
     billing |-> [a \in {"A1"} |->
        {BillingAccount("NY", "P1", <<Meter("SP1", "Electric", TRUE)>>)}],
     usages |-> {<<Usage("TOTAL_KWH", 202501)>>},
     costs |-> {<<Cost("ELECTRIC", 202501)>>},
     ami |-> [sp \in {"SP1"} |->
        {<<AmiReading(12, 2)>>, <<AmiReading(8, 5), AmiReading(12, 2)>>}],
     interval |-> {<<IntervalRead(12, 1)>>,
                   <<IntervalRead(8, 1), IntervalRead(12, 1)>>},
     errors |-> [a \in {"A1"} |-> [m \in ApiMethods |-> {}]]]

\* what the user types and what the provider links to the credentials:
\* the environment of the config flow
FlowEnv ==
    [usernames |-> {"Ann", "ann", "Bob B"},
     passwords |-> {"pw1", "pw2"},
     linked |-> {<<>>, <<"A1">>, <<"A1", "A2">>}]

\* the accounts and the fuel labels the helpers are asked about
QueryAccounts == {"A1", "A9"}

QueryFuelTypes ==
    {None} \cup {Some(l) : l \in {"", "Electric", "electric", "ELECTRIC",
                                  "Gas", "gas", "GAS", "Solar"}}

(***************************************************************************)
(* Specifications.                                                         *)
(***************************************************************************)
Init ==
    /\ selfData = None
    /\ isFirstRefresh = TRUE
    /\ lastUpdateSuccess = TRUE
    /\ store = EmptyDict
    /\ now = StartClock
    /\ cyc = [op |-> "init", outcome |-> "ok", calls |-> <<>>, log |-> <<>>]
    /\ imp = [runs |-> 0, reads |-> <<>>, upserts |-> <<>>]
    /\ polls = 0
    /\ host = NotSetUp
    /\ flow = NoFlow

\* the host's scheduler runs a polling cycle
Update ==
    /\ AsyncUpdateData(CoordEnv)
    /\ UNCHANGED <<polls, host, flow>>

Next ==
    \/ Update
    \/ ResetToFirstRefresh

Spec == Init /\ [][Next]_vars

\* a polling cycle of the importer environment
UpdateStats ==
    /\ polls < MaxPolls
    /\ AsyncUpdateData(StatsEnv)
    /\ polls' = polls + 1
    /\ UNCHANGED <<host, flow>>

\* an hour passes
Tick ==
    /\ now < StartClock + MaxHours * QuartersPerHour
    /\ now' = now + QuartersPerHour
    /\ UNCHANGED <<selfData, isFirstRefresh, lastUpdateSuccess, store, cyc, imp,
                   polls, host, flow>>

NextStats ==
    \/ UpdateStats
    \/ AsyncImportAllStatistics
    \/ ResetToFirstRefresh
    \/ Tick

SpecStats == Init /\ [][NextStats]_vars

\* a polling cycle whose _fetch_all_data may be the raising stub; the
\* cycles are counted, so that a cycle that repeats the one before it is
\* still a step
UpdateStubbed ==
    /\ polls < MaxPolls
    /\ AsyncUpdateDataStubbed(CoordEnv)
    /\ polls' = polls + 1
    /\ UNCHANGED <<host, flow>>

NextOutcomes ==
    \/ UpdateStubbed
    \/ ResetToFirstRefresh

\* the coordinator around every outcome of _fetch_all_data
SpecOutcomes == Init /\ [][NextOutcomes]_vars

\* clocks of the calendar specification: 2024-02-29, 2025-04-10 and
\* 2026-04-10, each at 07:30 UTC
WindowClocks ==
    {19782 * QuartersPerDay + 30, 20188 * QuartersPerDay + 30,
     20553 * QuartersPerDay + 30}

InitWindows ==
    /\ selfData = None
    /\ isFirstRefresh = TRUE
    /\ lastUpdateSuccess = TRUE
    /\ store = EmptyDict
    /\ now \in WindowClocks
    /\ cyc = [op |-> "init", outcome |-> "ok", calls |-> <<>>, log |-> <<>>]
    /\ imp = [runs |-> 0, reads |-> <<>>, upserts |-> <<>>]
    /\ polls = 0
    /\ host = NotSetUp
    /\ flow = NoFlow

\* the coordinator on several dates
SpecWindows == InitWindows /\ [][Next]_vars

\* a polling cycle of the query environment
UpdateQueries ==
    /\ AsyncUpdateData(QueryEnv)
    /\ UNCHANGED <<polls, host, flow>>

QueryLatestUsage ==
    \E a \in QueryAccounts : \E f \in QueryFuelTypes :
        Queried("get_latest_usage", a, f, GetLatestUsage(selfData, a, f))

QueryLatestCost ==
    \E a \in QueryAccounts : \E f \in QueryFuelTypes :
        Queried("get_latest_cost", a, f, GetLatestCost(selfData, a, f))

QueryAllUsages ==
    \E a \in QueryAccounts : \E f \in QueryFuelTypes :
        Queried("get_all_usages", a, f, GetAllUsages(selfData, a, f))

QueryAllCosts ==
    \E a \in QueryAccounts : \E f \in QueryFuelTypes :
        Queried("get_all_costs", a, f, GetAllCosts(selfData, a, f))

NextQueries ==
    \/ UpdateQueries
    \/ QueryLatestUsage
    \/ QueryLatestCost
    \/ QueryAllUsages
    \/ QueryAllCosts

\* the coordinator and the entities that query its snapshot
SpecQueries == Init /\ [][NextQueries]_vars

SetupRefresh == SetupFirstRefresh(SetupEnv)

ScheduledRefresh == ScheduledUpdate(SetupEnv)

NextSetup ==
    \/ SetupStart
    \/ SetupRefresh
    \/ SetupImport
    \/ SetupForward
    \/ ScheduledRefresh
    \/ AsyncUnloadEntry
    \/ AsyncRemoveEntry

\* the life of the config entry
SpecSetup == Init /\ [][NextSetup]_vars

\* a polling cycle of the recovery environment
UpdateGaps ==
    /\ polls < MaxPolls
    /\ AsyncUpdateData(GapEnv)
    /\ polls' = polls + 1
    /\ UNCHANGED <<host, flow>>

NextGaps ==
    \/ UpdateGaps
    \/ AsyncImportAllStatistics
    \/ ResetToFirstRefresh

\* cycles, imports and resets in any order
SpecGaps == Init /\ [][NextGaps]_vars

StepUser == AsyncStepUser(FlowEnv)

StepReauthConfirm == AsyncStepReauthConfirm(FlowEnv)

\* tests/test_statistics._make_meter_data
MakeMeterData(sp, fuel_type) ==
    MeterData([fuelType |-> fuel_type, servicePointNumber |-> sp], "acct1",
              NoBilling)

\* tests/test_statistics._make_coordinator_data, with the dataclass field
\* is_first_refresh set as well
MakeCoordinatorData(ami_usages, interval_reads, meters, is_first_refresh) ==
    [NationalGridCoordinatorData(Put(EmptyDict, "acct1", NoBilling))
        EXCEPT !.ami_usages = ami_usages,
               !.interval_reads = interval_reads,
               !.meters = meters,
               !.is_first_refresh = is_first_refresh]

\* the meters maps of the snapshots: SP1 and SP2 each known as a meter of
\* some fuel type or not at all, SP_UNKNOWN never
ImportMeters ==
    {[sp \in known |-> MakeMeterData(sp, fuel[sp])] :
        known \in SUBSET {"SP1", "SP2"},
        fuel \in [{"SP1", "SP2"} -> {"Gas", "Electric", "gas", ""}]}

ImportReadings ==
    {<<AmiReading(8, 5), AmiReading(12, -2)>>,
     <<AmiReading(12, 3), AmiReading(8, 10), AmiReading(9, 1)>>}

\* snapshots built by hand as the tests of the importer build them: AMI
\* readings for SP1, SP2 and a service point that no meter entry names
ImportSnapshots ==
    {MakeCoordinatorData(
        [sp \in {"SP1", "SP2", "SP_UNKNOWN"} |-> readings],
        IF with_reads THEN Put(EmptyDict, "SP_UNKNOWN", <<IntervalRead(8, 1)>>)
        ELSE EmptyDict,
        meters, first) :
        readings \in ImportReadings, with_reads \in BOOLEAN,
        meters \in ImportMeters, first \in BOOLEAN}

\* `coordinator.data = _make_coordinator_data(...)`
InitImport ==
    /\ selfData \in ImportSnapshots
    /\ isFirstRefresh = selfData.is_first_refresh
    /\ lastUpdateSuccess = TRUE
    /\ store = EmptyDict
    /\ now = StartClock
    /\ cyc = [op |-> "init", outcome |-> "ok", calls |-> <<>>, log |-> <<>>]
    /\ imp = [runs |-> 0, reads |-> <<>>, upserts |-> <<>>]
    /\ polls = 0
    /\ host = NotSetUp
    /\ flow = NoFlow

NextImport ==
    \/ AsyncImportAllStatistics
    \/ Tick

\* the importer applied to hand-built snapshots as the clock advances
SpecImport == InitImport /\ [][NextImport]_vars

NextFlow ==
    \/ StartUserFlow
    \/ StepUser
    \/ AsyncStepSelectAccounts
    \/ AsyncStepReauth
    \/ StepReauthConfirm

\* the config flow and the entries it makes
SpecFlow == Init /\ [][NextFlow]_vars

(***************************************************************************)
(* Vocabulary of the properties.                                           *)
(***************************************************************************)
\* some API call of the cycle raised InvalidAuthError
AuthRaised(c) ==
    \E i \in DOMAIN c.calls : IsInstance(c.calls[i].exc, "InvalidAuthError")

\* the fetch of the account raised a connectivity/provider error that the
\* loop of _fetch_all_data caught
AccountFailed(c, a) ==
    \E i \in DOMAIN c.log :
        c.log[i] = <<"warning", "Error fetching data for account", a>>

Entries(d, field) == IF d = None THEN EmptyDict ELSE d[field]

SameEntry(d1, d2, k) ==
    /\ k \in DOMAIN d1 <=> k \in DOMAIN d2
    /\ k \in DOMAIN d1 => d1[k] = d2[k]

ServicePointsOf(d, a) ==
    {sp \in DOMAIN Entries(d, "meters") : Entries(d, "meters")[sp].account_id = a}

SelectedAccounts == Range(CoordEnv.selected)

(***************************************************************************)
(* C1: when the fetch of one selected account fails with a connectivity or *)
(* provider error (and no call raises an authentication error), the cycle  *)
(* returns a snapshot, every other selected account is fetched, and what   *)
(* its billing, usage and cost calls returned is what the snapshot holds.  *)
(***************************************************************************)
C1_OtherAccountsFetched ==
    cyc.op = "update" =>
      \A a \in SelectedAccounts :
        AccountFailed(cyc, a) /\ ~AuthRaised(cyc) =>
          /\ cyc.outcome = "ok"
          /\ selfData # None
          /\ \A b \in SelectedAccounts \ {a} :
               /\ \E i \in DOMAIN cyc.calls :
                     /\ cyc.calls[i].api = "get_billing_account"
                     /\ cyc.calls[i].acct = b
               /\ \A i \in DOMAIN cyc.calls :
                    LET c == cyc.calls[i]
                    IN  c.acct = b /\ c.exc = "" =>
                          /\ c.api = "get_billing_account" =>
                               Get(selfData.accounts, b, NoBilling) = c.billing
                          /\ c.api = "get_energy_usages" =>
                               b \in DOMAIN selfData.usages
                               /\ selfData.usages[b] = c.list
                          /\ c.api = "get_energy_usage_costs" =>
                               b \in DOMAIN selfData.costs
                               /\ selfData.costs[b] = c.list

\* the first account failed and the second one was fetched into the snapshot
C1_Witness ==
    /\ cyc.op = "update"
    /\ cyc.outcome = "ok"
    /\ AccountFailed(cyc, "A1")
    /\ \E i \in DOMAIN cyc.calls :
          /\ cyc.calls[i].api = "get_billing_account"
          /\ cyc.calls[i].acct = "A2"
          /\ cyc.calls[i].exc = ""
          /\ selfData.accounts["A2"] = cyc.calls[i].billing
          /\ "A2" \in DOMAIN selfData.usages

(***************************************************************************)
(* C2: whenever an API call of a polling cycle raises InvalidAuthError,    *)
(* _async_update_data ends by raising ConfigEntryAuthFailed.               *)
(***************************************************************************)
C2_AuthErrorPropagates ==
    cyc.op = "update" /\ AuthRaised(cyc) =>
        cyc.outcome = "ConfigEntryAuthFailed"

(***************************************************************************)
(* C3: when the fetch of account a fails with a connectivity or provider   *)
(* error, the returned snapshot holds for a and for a's service points     *)
(* exactly the entries the previous snapshot held.                         *)
(***************************************************************************)
C3_FailedAccountKeepsEntries ==
    [][ \A a \in SelectedAccounts :
          cyc'.op = "update" /\ cyc'.outcome = "ok" /\ AccountFailed(cyc', a) =>
            /\ SameEntry(Entries(selfData, "accounts"), selfData'.accounts, a)
            /\ SameEntry(Entries(selfData, "usages"), selfData'.usages, a)
            /\ SameEntry(Entries(selfData, "costs"), selfData'.costs, a)
            /\ ServicePointsOf(selfData', a) = ServicePointsOf(selfData, a)
            /\ \A sp \in ServicePointsOf(selfData, a) :
                 /\ SameEntry(selfData.meters, selfData'.meters, sp)
                 /\ SameEntry(selfData.ami_usages, selfData'.ami_usages, sp)
                 /\ SameEntry(selfData.interval_reads, selfData'.interval_reads, sp)
      ]_vars

\* account A1 failed in the last cycle and its earlier data are still there
C3_Witness ==
    /\ cyc.op = "update"
    /\ cyc.outcome = "ok"
    /\ AccountFailed(cyc, "A1")
    /\ "A1" \in DOMAIN selfData.accounts
    /\ selfData.usages["A1"] # <<>>
    /\ "SP1" \in DOMAIN selfData.meters
    /\ "SP1" \in DOMAIN selfData.ami_usages
    /\ "SP1" \in DOMAIN selfData.interval_reads

(***************************************************************************)
(* C4: the first-refresh flag is true at creation, false after a polling   *)
(* cycle that returned a snapshot, and once false it stays false until     *)
(* reset_to_first_refresh is called.                                       *)
(***************************************************************************)
C4_FirstRefreshFlag ==
    [][ /\ cyc.op = "init" => isFirstRefresh
        /\ cyc'.op = "update" /\ cyc'.outcome = "ok" => ~isFirstRefresh'
        /\ ~isFirstRefresh /\ cyc'.op # "reset" => ~isFirstRefresh'
    ]_vars

\* an incremental cycle (one after the first successful one) has run
C4_Witness ==
    /\ cyc.op = "update"
    /\ cyc.outcome = "ok"
    /\ ~isFirstRefresh
    /\ cyc.calls # <<>>
    /\ \A i \in DOMAIN cyc.calls : ~cyc.calls[i].first

(***************************************************************************)
(* Vocabulary of the importer properties.                                  *)
(***************************************************************************)
\* a step of AsyncImportAllStatistics
ImportStep ==
    /\ now' = now
    /\ polls' = polls
    /\ cyc' = cyc
    /\ isFirstRefresh' = isFirstRefresh
    /\ imp'.runs >= 1

HourlyVariants ==
    {"gas_hourly_usage", "electric_hourly_usage", "electric_return_hourly_usage"}

IntervalVariants ==
    {"electric_interval_usage", "electric_interval_return_usage"}

\* start timestamps of the points stored for a series
StartsOf(st, statistic_id) == {r.start : r \in Points(st, statistic_id)}

\* sum of the last point stored for a series, 0 when there is none
StoredSum(st, statistic_id) ==
    LET rows == Points(st, statistic_id)
    IN  IF rows = {} THEN 0
        ELSE (CHOOSE r \in rows : \A o \in rows : o.start <= r.start).sum

RECURSIVE SumOfStates(_)
SumOfStates(stats) ==
    IF stats = <<>> THEN 0
    ELSE stats[Len(stats)].state + SumOfStates(SubSeq(stats, 1, Len(stats) - 1))

ValidDate(d) == d # EmptyDate /\ d # BadDate

\* the hourly series an AMI reading of a service point belongs to
HourlySeriesOf(data, sp, reading) ==
    IF data.meters[sp].meter.fuelType = "Gas"
    THEN StatisticId(sp, "gas_hourly_usage")
    ELSE IF reading.quantity < 0
    THEN StatisticId(sp, "electric_return_hourly_usage")
    ELSE StatisticId(sp, "electric_hourly_usage")

\* an upsert of the run wrote a point of that start into that series
Wrote(run, statistic_id, start) ==
    \E k \in DOMAIN run.upserts :
        /\ run.upserts[k].statistic_id = statistic_id
        /\ \E j \in DOMAIN run.upserts[k].stats :
              run.upserts[k].stats[j].start = start

(***************************************************************************)
(* C5: a run of the importer on a snapshot that was already imported,      *)
(* with the store holding what the earlier run wrote, makes no upsert.     *)
(***************************************************************************)
C5_SecondImportWritesNothing ==
    [][ ImportStep /\ imp.runs >= 1 => imp'.upserts = <<>> ]_vars

\* the importer ran again on an imported snapshot whose readings are in
\* the store, and wrote nothing
C5_Witness ==
    /\ imp.runs = 2
    /\ imp.upserts = <<>>
    /\ selfData # None
    /\ StatisticId("SP1", "electric_hourly_usage") \in DOMAIN store
    /\ StatisticId("SP1", "electric_interval_usage") \in DOMAIN store

(***************************************************************************)
(* C6: every point of an upsert, of an hourly or an interval series, has   *)
(* a top-of-hour start that is strictly later than the start of every      *)
(* point the store held for that series.                                   *)
(***************************************************************************)
C6_OnlyNewerHoursWritten ==
    [][ ImportStep =>
          \A k \in DOMAIN imp'.upserts :
            LET u == imp'.upserts[k]
            IN  \A j \in DOMAIN u.stats :
                  /\ u.stats[j].start % QuartersPerHour = 0
                  /\ \A r \in Points(store, u.statistic_id) :
                        u.stats[j].start > r.start
      ]_vars

\* an upsert continued a series and left out a reading of the snapshot
\* that lies at or before the last stored point
C6_Witness ==
    /\ imp.runs >= 1
    /\ selfData # None
    /\ \E k \in DOMAIN imp.upserts :
         LET u == imp.upserts[k]
         IN  /\ u.statistic_id = StatisticId("SP1", "electric_hourly_usage")
             /\ u.last_ts > 0
             /\ \E i \in DOMAIN selfData.ami_usages["SP1"] :
                  LET r == selfData.ami_usages["SP1"][i]
                  IN  /\ ValidDate(r.date)
                      /\ r.quantity >= 0
                      /\ r.date <= u.last_ts
                      /\ \A j \in DOMAIN u.stats : u.stats[j].start # HourStart(r.date)

(***************************************************************************)
(* C7: in every upsert each point's sum is the sum of the point before it  *)
(* (for the first point the last sum stored for the series, 0 when there   *)
(* is none) plus the point's own state, so the last sum is the stored sum  *)
(* plus the states of all written points.                                  *)
(***************************************************************************)
C7_RunningSum ==
    [][ ImportStep =>
          \A k \in DOMAIN imp'.upserts :
            LET u == imp'.upserts[k]
                prev == StoredSum(store, u.statistic_id)
            IN  /\ \A j \in DOMAIN u.stats :
                     u.stats[j].sum =
                        (IF j = 1 THEN prev ELSE u.stats[j - 1].sum)
                        + u.stats[j].state
                /\ u.stats[Len(u.stats)].sum = prev + SumOfStates(u.stats)
      ]_vars

\* an upsert of several points continued a series with a stored sum
C7_Witness ==
    \E k \in DOMAIN imp.upserts :
        LET u == imp.upserts[k]
        IN  /\ u.last_sum > 0
            /\ Len(u.stats) >= 2
            /\ u.stats[Len(u.stats)].sum = u.last_sum + SumOfStates(u.stats)

C9_HourlyAndIntervalDisjoint ==
    \A sp \in DOMAIN StatsEnv.ami :
      \A h \in HourlyVariants : \A q \in IntervalVariants :
        StartsOf(store, StatisticId(sp, h))
           \cap StartsOf(store, StatisticId(sp, q)) = {}

(***************************************************************************)
(* C10: when one category call (usages, costs, AMI usages, interval reads) *)
(* of an account fails with a connectivity or provider error, the cycle    *)
(* returns a snapshot, the entry of that category is empty in it, and the  *)
(* entries of the calls that succeeded hold what they returned.            *)
(***************************************************************************)
C10_CategoryErrorEmptiesEntry ==
    cyc.op = "update" =>
      \A i \in DOMAIN cyc.calls :
        LET c == cyc.calls[i]
        IN  c.exc \in ConnectivityErrors /\ c.api # "get_billing_account" =>
              /\ cyc.outcome = "ok"
              /\ selfData # None
              /\ c.api = "get_energy_usages" =>
                    Get(selfData.usages, c.acct, <<>>) = <<>>
              /\ c.api = "get_energy_usage_costs" =>
                    Get(selfData.costs, c.acct, <<>>) = <<>>
              /\ c.api = "get_ami_energy_usages" =>
                    Get(selfData.ami_usages, c.sp, <<>>) = <<>>
              /\ c.api = "get_interval_reads" =>
                    Get(selfData.interval_reads, c.sp, <<>>) = <<>>
              /\ \A j \in DOMAIN cyc.calls :
                   LET o == cyc.calls[j]
                   IN  o.acct = c.acct /\ o.exc = "" =>
                         /\ o.api = "get_energy_usages" =>
                               selfData.usages[o.acct] = o.list
                         /\ o.api = "get_energy_usage_costs" =>
                               selfData.costs[o.acct] = o.list
                         /\ o.api = "get_ami_energy_usages" =>
                               selfData.ami_usages[o.sp] = o.list
                         /\ o.api = "get_interval_reads" =>
                               selfData.interval_reads[o.sp] = o.list

(***************************************************************************)
(* Vocabulary of the query windows: the calendar, counted forwards.        *)
(***************************************************************************)
LeapYear(y) == y % 4 = 0 /\ (y % 100 # 0 \/ y % 400 = 0)

LeapsBefore(y) == (y - 1) \div 4 - (y - 1) \div 100 + (y - 1) \div 400

\* day number of the first day of month m of year y (m = 13: of year y + 1)
FirstDayOfMonth(y, m) ==
    365 * (y - 1970) + LeapsBefore(y) - LeapsBefore(1970)
    + <<0, 31, 59, 90, 120, 151, 181, 212, 243, 273, 304, 334, 365>>[m]
    + (IF m > 2 /\ LeapYear(y) THEN 1 ELSE 0)

\* year * 100 + month of the month a day number lies in
YearMonthOf(day) ==
    LET years == (1970 + day \div 366 - 1) .. (1970 + day \div 365 + 1)
        ym == CHOOSE c \in years \X (1 .. 12) :
                 /\ FirstDayOfMonth(c[1], c[2]) <= day
                 /\ day < FirstDayOfMonth(c[1], c[2] + 1)
    IN  ym[1] * 100 + ym[2]

RECURSIVE Total(_)
Total(nums) ==
    IF nums = <<>> THEN 0
    ELSE nums[Len(nums)] + Total(SubSeq(nums, 1, Len(nums) - 1))

\* a value belongs to the return direction when it is negative
InDirection(value, return) == IF return THEN value < 0 ELSE value >= 0

\* the upserts a run made for a series
UpsertsOf(run, statistic_id) ==
    {k \in DOMAIN run.upserts : run.upserts[k].statistic_id = statistic_id}

\* start of the last point stored for a series, 0 when there is none
StoredStart(st, statistic_id) ==
    LET rows == Points(st, statistic_id)
    IN  IF rows = {} THEN 0
        ELSE CHOOSE t \in StartsOf(st, statistic_id) :
                \A o \in StartsOf(st, statistic_id) : o <= t

\* what the interval reads of one direction amount to in one hour
HourTotal(reads, hour, return) ==
    Total([i \in DOMAIN reads |->
             IF /\ ValidDate(reads[i].startTime)
                /\ InDirection(reads[i].value, return)
                /\ reads[i].startTime \div 4 = hour \div 4
             THEN Abs(reads[i].value) ELSE 0])

ElectricServicePoints(data) ==
    {sp \in DOMAIN data.meters : data.meters[sp].meter.fuelType # "Gas"}

IntervalSeriesOf(sp, return) ==
    IF return THEN StatisticId(sp, "electric_interval_return_usage")
    ELSE StatisticId(sp, "electric_interval_usage")

(***************************************************************************)
(* C12: an interval upsert holds at most one point per hour, and the       *)
(* state of a point is the sum of the values of all reads of its direction *)
(* whose start time lies in that hour.                                     *)
(***************************************************************************)
C12_IntervalHourBuckets ==
    [][ ImportStep /\ selfData # None =>
          \A sp \in DOMAIN selfData.interval_reads : \A return \in BOOLEAN :
            \A k \in UpsertsOf(imp', IntervalSeriesOf(sp, return)) :
              LET stats == imp'.upserts[k].stats
              IN  /\ \A i \in DOMAIN stats : \A j \in DOMAIN stats :
                        stats[i].start = stats[j].start => i = j
                  /\ \A j \in DOMAIN stats :
                        stats[j].state =
                           HourTotal(selfData.interval_reads[sp],
                                     stats[j].start, return)
      ]_vars

\* two reads of one hour were folded into one point, next to a point of
\* another hour
C12_Witness ==
    /\ imp.runs >= 1
    /\ selfData # None
    /\ "SP1" \in DOMAIN selfData.interval_reads
    /\ \E k \in UpsertsOf(imp, IntervalSeriesOf("SP1", FALSE)) :
         LET stats == imp.upserts[k].stats
             reads == selfData.interval_reads["SP1"]
         IN  /\ Len(stats) = 2
             /\ \E a \in DOMAIN reads : \E b \in DOMAIN reads :
                   /\ a # b
                   /\ reads[a].startTime # reads[b].startTime
                   /\ HourStart(reads[a].startTime) = stats[1].start
                   /\ HourStart(reads[b].startTime) = stats[1].start
                   /\ stats[1].state = reads[a].value + reads[b].value

(***************************************************************************)
(* C13: an electric reading with a valid timestamp counts in one direction *)
(* only.  What an upsert adds to a consumption series is the total of the  *)
(* values >= 0 of the imported readings, what it adds to a return series   *)
(* is the total of the absolute values of the imported readings < 0; no    *)
(* point of a consumption series comes from a negative reading and no      *)
(* point of a return series from a reading >= 0.                           *)
(***************************************************************************)
C13_OneDirectionPerReading ==
    [][ ImportStep /\ selfData # None =>
          \A sp \in ElectricServicePoints(selfData) : \A return \in BOOLEAN :
            /\ sp \in DOMAIN selfData.ami_usages =>
                 LET readings == selfData.ami_usages[sp]
                     id == IF return
                           THEN StatisticId(sp, "electric_return_hourly_usage")
                           ELSE StatisticId(sp, "electric_hourly_usage")
                     imported(r) ==
                        /\ ValidDate(r.date)
                        /\ HourStart(r.date) > StoredStart(store, id)
                        /\ selfData.is_first_refresh
                             \/ HourStart(r.date) >= now - 48 * 4
                 IN  \A k \in UpsertsOf(imp', id) :
                       LET stats == imp'.upserts[k].stats
                       IN  /\ SumOfStates(stats) =
                                Total([i \in DOMAIN readings |->
                                   IF /\ imported(readings[i])
                                      /\ InDirection(readings[i].quantity, return)
                                   THEN Abs(readings[i].quantity) ELSE 0])
                           /\ \A j \in DOMAIN stats :
                                \E i \in DOMAIN readings :
                                  /\ InDirection(readings[i].quantity, return)
                                  /\ HourStart(readings[i].date) = stats[j].start
                                  /\ stats[j].state = Abs(readings[i].quantity)
            /\ sp \in DOMAIN selfData.interval_reads =>
                 LET reads == selfData.interval_reads[sp]
                     id == IntervalSeriesOf(sp, return)
                 IN  \A k \in UpsertsOf(imp', id) :
                       SumOfStates(imp'.upserts[k].stats) =
                          Total([i \in DOMAIN reads |->
                             IF /\ ValidDate(reads[i].startTime)
                                /\ HourStart(reads[i].startTime) > StoredStart(store, id)
                                /\ InDirection(reads[i].value, return)
                             THEN Abs(reads[i].value) ELSE 0])
      ]_vars

\* one run wrote a consumption and a return series of a service point from
\* a list that holds readings of both signs
C13_Witness ==
    /\ imp.runs >= 1
    /\ selfData # None
    /\ UpsertsOf(imp, StatisticId("SP1", "electric_hourly_usage")) # {}
    /\ UpsertsOf(imp, StatisticId("SP1", "electric_return_hourly_usage")) # {}
    /\ "SP1" \in DOMAIN selfData.ami_usages
    /\ \E i \in DOMAIN selfData.ami_usages["SP1"] :
          selfData.ami_usages["SP1"][i].quantity < 0
    /\ \E i \in DOMAIN selfData.ami_usages["SP1"] :
          /\ selfData.ami_usages["SP1"][i].quantity >= 0
          /\ ValidDate(selfData.ami_usages["SP1"][i].date)

(***************************************************************************)
(* C14: the state of a point of a gas series is the reading's quantity in  *)
(* therms times 1.038, rounded to 2 decimals (10 therms give 10.38), and   *)
(* the sums of the series are the running total of these states.  States   *)
(* and sums of a gas series are in hundredths of a CCF.                    *)
(***************************************************************************)
C14_GasThermsToCcf ==
    [][ ImportStep /\ selfData # None =>
          \A sp \in (DOMAIN selfData.ami_usages) \cap (DOMAIN selfData.meters) :
            selfData.meters[sp].meter.fuelType = "Gas" =>
              \A k \in UpsertsOf(imp', StatisticId(sp, "gas_hourly_usage")) :
                LET stats == imp'.upserts[k].stats
                    readings == selfData.ami_usages[sp]
                    prev == StoredSum(store, StatisticId(sp, "gas_hourly_usage"))
                IN  /\ \A j \in DOMAIN stats :
                         /\ \E i \in DOMAIN readings :
                              /\ HourStart(readings[i].date) = stats[j].start
                              /\ Abs(10 * stats[j].state
                                     - 1038 * readings[i].quantity) < 5
                              /\ readings[i].quantity = 10 =>
                                    stats[j].state = 1038
                         /\ stats[j].sum =
                              prev + SumOfStates(SubSeq(stats, 1, j))
      ]_vars

\* a gas upsert of two points, one of them 10 therms stored as 10.38 CCF
C14_Witness ==
    /\ imp.runs >= 1
    /\ \E k \in UpsertsOf(imp, StatisticId("SP2", "gas_hourly_usage")) :
         LET stats == imp.upserts[k].stats
         IN  /\ Len(stats) = 2
             /\ stats[1].state = 1038
             /\ stats[2].sum = 1038 + stats[2].state
             /\ stats[2].state = 311

(***************************************************************************)
(* Vocabulary of the malformed readings.                                   *)
(***************************************************************************)
WellDatedReading(r) == ValidDate(r.date)

WellDatedRead(r) == ValidDate(r.startTime)

\* the snapshot without the readings whose timestamp is empty or malformed
WellDated(data) ==
    [data EXCEPT
       !.ami_usages = [sp \in DOMAIN @ |-> SelectSeq(@[sp], WellDatedReading)],
       !.interval_reads = [sp \in DOMAIN @ |-> SelectSeq(@[sp], WellDatedRead)]]

(***************************************************************************)
(* C15: a reading whose timestamp is empty or cannot be parsed is skipped: *)
(* the run makes the upserts, and leaves the store, that it would make     *)
(* and leave if the snapshot did not hold such readings.                   *)
(***************************************************************************)
C15_MalformedTimestampSkipped ==
    [][ ImportStep /\ selfData # None =>
          LET clean == ImportAllStatistics(store, now, WellDated(selfData))
          IN  /\ imp'.upserts = clean.upserts
              /\ store' = clean.store
      ]_vars

\* a run wrote points from lists that also hold a reading with an empty and
\* a reading with a malformed timestamp
C15_Witness ==
    /\ imp.runs >= 1
    /\ selfData # None
    /\ \E sp \in DOMAIN selfData.ami_usages :
         /\ \E i \in DOMAIN selfData.ami_usages[sp] :
               selfData.ami_usages[sp][i].date = BadDate
         /\ \E i \in DOMAIN selfData.ami_usages[sp] :
               selfData.ami_usages[sp][i].date = EmptyDate
         /\ UpsertsOf(imp, StatisticId(sp, "electric_hourly_usage")) # {}
    /\ \E sp \in DOMAIN selfData.interval_reads :
         /\ \E i \in DOMAIN selfData.interval_reads[sp] :
               selfData.interval_reads[sp][i].startTime = BadDate
         /\ \E i \in DOMAIN selfData.interval_reads[sp] :
               selfData.interval_reads[sp][i].startTime = EmptyDate
         /\ UpsertsOf(imp, IntervalSeriesOf(sp, TRUE)) # {}

(***************************************************************************)
(* C16: async_add_external_statistics is never called with an empty list   *)
(* of points.  A series of which no reading is left to import (and every   *)
(* series when there is no snapshot) gets neither points nor metadata: it  *)
(* is in the store after the run exactly if it was before, with the same   *)
(* points.                                                                 *)
(***************************************************************************)
C16_NoEmptyUpsert ==
    [][ ImportStep =>
          /\ \A k \in DOMAIN imp'.upserts : imp'.upserts[k].stats # <<>>
          /\ \A id \in (DOMAIN store') \cup Range(imp'.reads) :
               UpsertsOf(imp', id) = {} =>
                 /\ id \in DOMAIN store' <=> id \in DOMAIN store
                 /\ Points(store', id) = Points(store, id)
          /\ selfData = None => imp'.upserts = <<>> /\ store' = store
      ]_vars

\* a run looked at a series that has never been written, found nothing to
\* import for it and left it out of the store, while it wrote another one
C16_Witness ==
    /\ imp.runs >= 1
    /\ imp.upserts # <<>>
    /\ \E i \in DOMAIN imp.reads :
          /\ UpsertsOf(imp, imp.reads[i]) = {}
          /\ imp.reads[i] \notin DOMAIN store

(***************************************************************************)
(* Vocabulary of the log.                                                  *)
(***************************************************************************)
\* how often a message was logged in a cycle
Count(c, msg) == Cardinality({i \in DOMAIN c.log : c.log[i] = msg})

AccountWarnings(c, a) ==
    Count(c, <<"warning", "Error fetching data for account", a>>)

Unavailable(c) ==
    Count(c, <<"warning", "National Grid service unavailable", "">>)

Recovered(c) == Count(c, <<"info", "National Grid service recovered", "">>)

\* the fetch of account a failed with a connectivity or provider error:
\* only get_billing_account lets one out of _fetch_account_data
FetchFailed(c, a) ==
    \E i \in DOMAIN c.calls :
        /\ c.calls[i].api = "get_billing_account"
        /\ c.calls[i].acct = a
        /\ c.calls[i].exc \in ConnectivityErrors

\* the fetch of account a went through
FetchDone(c, a) ==
    \E i \in DOMAIN c.calls :
        /\ c.calls[i].api = "get_billing_account"
        /\ c.calls[i].acct = a
        /\ c.calls[i].exc = ""

\* messages about one account name it in their third field
AboutAccount(msg) == msg[3] # ""

(***************************************************************************)
(* C17, as claimed: when the fetch of an account fails in consecutive      *)
(* cycles, the failure is logged in the first of them only, and a recovery *)
(* message about the account is logged when its fetch next succeeds.       *)
(***************************************************************************)
C17_FailureLoggedOncePerTransition ==
    [][ cyc.op = "update" /\ cyc'.op = "update" =>
          \A a \in SelectedAccounts :
            /\ FetchFailed(cyc, a) /\ FetchFailed(cyc', a) =>
                  AccountWarnings(cyc', a) = 0
            /\ FetchFailed(cyc, a) /\ FetchDone(cyc', a) =>
                  \E i \in DOMAIN cyc'.log :
                     /\ cyc'.log[i][3] = a
                     /\ cyc'.log[i][2] # "Error fetching data for account"
      ]_vars

(***************************************************************************)
(* C17, as the code has it: the warning about an account is logged once in *)
(* every cycle in which the fetch of the account fails, also when it       *)
(* failed in the cycle before, and in no other cycle; no other message     *)
(* about an account, hence no recovery message, is ever logged.            *)
(***************************************************************************)
C17_FailureLoggedEveryCycle ==
    [][ cyc'.op = "update" =>
          /\ \A a \in SelectedAccounts :
               /\ FetchFailed(cyc', a) => AccountWarnings(cyc', a) = 1
               /\ ~FetchFailed(cyc', a) => AccountWarnings(cyc', a) = 0
               /\ cyc.op = "update" /\ FetchFailed(cyc, a) /\ FetchFailed(cyc', a)
                     => AccountWarnings(cyc', a) = 1
          /\ \A i \in DOMAIN cyc'.log :
               AboutAccount(cyc'.log[i]) =>
                  cyc'.log[i][2] = "Error fetching data for account"
      ]_vars

\* the fetch of account A2 failed and was logged in a cycle after the first
\* refresh, and has failed in every cycle that returned before
C17_Witness ==
    /\ cyc.op = "update"
    /\ cyc.outcome = "ok"
    /\ FetchFailed(cyc, "A2")
    /\ AccountWarnings(cyc, "A2") = 1
    /\ ~selfData.is_first_refresh
    /\ "A2" \notin DOMAIN selfData.accounts

(***************************************************************************)
(* C18: when consecutive cycles fail with UpdateFailed, the warning        *)
(* 'National Grid service unavailable' is logged in the first of them      *)
(* only, and _last_update_success is false after each of them.             *)
(***************************************************************************)
C18_UnavailableLoggedOnce ==
    [][ cyc'.op = "update" /\ cyc'.outcome = "UpdateFailed" =>
          /\ ~lastUpdateSuccess'
          /\ cyc.op = "update" /\ cyc.outcome = "UpdateFailed" =>
                Unavailable(cyc') = 0
          /\ cyc.op = "init" \/ (cyc.op = "update" /\ cyc.outcome = "ok") =>
                Unavailable(cyc') = 1
      ]_vars

\* a cycle failed after a failed cycle and did not log the warning again
C18_Witness ==
    /\ cyc.op = "update"
    /\ cyc.outcome = "UpdateFailed"
    /\ Unavailable(cyc) = 0
    /\ ~lastUpdateSuccess

(***************************************************************************)
(* C19, as claimed: the first cycle that succeeds after a failed one,      *)
(* whatever it failed with, logs 'National Grid service recovered' once    *)
(* and sets _last_update_success.                                          *)
(***************************************************************************)
C19_RecoveryAfterAnyFailure ==
    [][ /\ cyc.op = "update" /\ cyc.outcome # "ok"
        /\ cyc'.op = "update" /\ cyc'.outcome = "ok"
        => Recovered(cyc') = 1 /\ lastUpdateSuccess'
      ]_vars

(***************************************************************************)
(* C19, as the code has it: the first cycle that succeeds after a cycle    *)
(* that failed with UpdateFailed logs 'National Grid service recovered'    *)
(* exactly once; a cycle that succeeds after a successful cycle, or as the *)
(* first cycle, does not log it; _last_update_success is true after every  *)
(* cycle that succeeds.                                                    *)
(***************************************************************************)
C19_RecoveryLoggedOnce ==
    [][ cyc'.op = "update" /\ cyc'.outcome = "ok" =>
          /\ lastUpdateSuccess'
          /\ cyc.op = "update" /\ cyc.outcome = "UpdateFailed" =>
                Recovered(cyc') = 1
          /\ cyc.op = "init" \/ (cyc.op = "update" /\ cyc.outcome = "ok") =>
                Recovered(cyc') = 0
      ]_vars

\* a cycle succeeded while _last_update_success was false and logged the
\* recovery
C19_Witness ==
    /\ cyc.op = "update"
    /\ cyc.outcome = "ok"
    /\ Recovered(cyc) = 1
    /\ lastUpdateSuccess

(***************************************************************************)
(* Vocabulary of the series.                                               *)
(***************************************************************************)
\* service point numbers, some of them ending like a part of an id
ServicePointNames ==
    {"SP1", "SP2", "SP1_electric", "SP1_electric_return", "SP1_gas",
     "SP1_electric_interval", "1", "1_"}

\* the part of the id that stands for (fuel type, direction, granularity)
SeriesVariant(fuel, return, granularity) ==
    IF granularity = "hourly"
    THEN IF fuel = "gas" THEN "gas_hourly_usage"
         ELSE IF return THEN "electric_return_hourly_usage"
         ELSE "electric_hourly_usage"
    ELSE IF return THEN "electric_interval_return_usage"
    ELSE "electric_interval_usage"

\* the tuples that have a series: gas has one direction and no intervals
SeriesTuples ==
    {t \in ServicePointNames \X {"gas", "electric"} \X BOOLEAN
             \X {"hourly", "interval"} :
        t[2] = "gas" => ~t[3] /\ t[4] = "hourly"}

SeriesId(t) == StatisticId(t[1], SeriesVariant(t[2], t[3], t[4]))

SeriesIds == {SeriesId(t) : t \in SeriesTuples}

\* no two tuples have the same id
DistinctSeriesIds == Cardinality(SeriesIds) = Cardinality(SeriesTuples)

(***************************************************************************)
(* C20: every (service point, fuel type, direction, granularity) tuple has *)
(* a statistic id of its own, and a run reads the last point of a series   *)
(* from the id it writes the new points of that series to: each upsert     *)
(* goes to an id the run has read, continues from the last point stored    *)
(* under that id, and its points are stored under that id.                 *)
(***************************************************************************)
C20_OneSeriesPerTuple ==
    [][ ImportStep =>
          /\ DistinctSeriesIds
          /\ \A k \in DOMAIN imp'.upserts :
               LET u == imp'.upserts[k]
               IN  /\ u.statistic_id \in Range(imp'.reads)
                   /\ u.statistic_id \in SeriesIds
                   /\ u.last_ts = StoredStart(store, u.statistic_id)
                   /\ u.last_sum = StoredSum(store, u.statistic_id)
                   /\ \A j \in DOMAIN u.stats :
                        u.stats[j].start \in StartsOf(store', u.statistic_id)
                   /\ \A o \in DOMAIN imp'.upserts :
                        imp'.upserts[o].statistic_id = u.statistic_id => o = k
      ]_vars

\* one run continued one series from its stored points and wrote to three
\* series in all
C20_Witness ==
    /\ imp.runs >= 1
    /\ \E k \in DOMAIN imp.upserts : imp.upserts[k].last_ts > 0
    /\ Cardinality({imp.upserts[k].statistic_id : k \in DOMAIN imp.upserts}) >= 3

(***************************************************************************)
(* Vocabulary of the meter calls.                                          *)
(***************************************************************************)
\* the billing accounts the cycle fetched, as (account, billing account)
FetchedBilling(c) ==
    { <<c.calls[i].acct, c.calls[i].billing>> :
        i \in {j \in DOMAIN c.calls :
                 c.calls[j].api = "get_billing_account" /\ c.calls[j].exc = ""} }

\* how often the cycle called api for service point sp of account a
CallsFor(c, api, a, sp) ==
    Cardinality({i \in DOMAIN c.calls :
                   /\ c.calls[i].api = api
                   /\ c.calls[i].acct = a
                   /\ c.calls[i].sp = sp})

\* how many meters of billing account b are flagged, have service point
\* number sp and, where not_gas is asked, a fuel type other than Gas
FlaggedMeters(b, sp, not_gas) ==
    Cardinality({i \in DOMAIN b.meter :
                   /\ b.meter[i].servicePointNumber = sp
                   /\ sp # ""
                   /\ b.meter[i].hasAmiSmartMeter
                   /\ not_gas => b.meter[i].fuelType # "Gas"})

\* service point numbers of the meters of b, the empty one included
ServicePointNumbers(b) == {b.meter[i].servicePointNumber : i \in DOMAIN b.meter}

\* every AMI or interval call is about a meter of a billing account that
\* the cycle fetched
MeterCallsAreOfFetchedMeters(c) ==
    \A i \in DOMAIN c.calls :
        c.calls[i].api \in {"get_ami_energy_usages", "get_interval_reads"} =>
            \E f \in FetchedBilling(c) :
                /\ f[1] = c.calls[i].acct
                /\ c.calls[i].sp \in ServicePointNumbers(f[2]) \ {""}

(***************************************************************************)
(* C21, as claimed: in a cycle that returns a snapshot,                    *)
(* get_ami_energy_usages is called exactly for the meters flagged          *)
(* hasAmiSmartMeter that have a service point number, and                  *)
(* get_interval_reads for every electric meter (that has a service point   *)
(* number to ask for) and for no gas meter.                                *)
(***************************************************************************)
C21_IntervalReadsForEveryElectricMeter ==
    cyc.op = "update" /\ cyc.outcome = "ok" =>
      \A f \in FetchedBilling(cyc) : \A i \in DOMAIN f[2].meter :
        LET m == f[2].meter[i]
            sp == m.servicePointNumber
        IN  /\ CallsFor(cyc, "get_ami_energy_usages", f[1], sp) > 0
                 <=> m.hasAmiSmartMeter /\ sp # ""
            /\ m.fuelType = "Electric" /\ sp # "" =>
                 CallsFor(cyc, "get_interval_reads", f[1], sp) > 0
            /\ m.fuelType = "Gas" =>
                 CallsFor(cyc, "get_interval_reads", f[1], sp) = 0

(***************************************************************************)
(* C21, as the code has it: in a cycle that returns a snapshot, for every  *)
(* account whose billing account was fetched, get_ami_energy_usages is     *)
(* called once for each meter flagged hasAmiSmartMeter that has a service  *)
(* point number, and get_interval_reads once for each of these meters      *)
(* whose fuel type is not Gas; no other meter gets either call, so an      *)
(* electric meter that is not flagged gets no interval read call.          *)
(***************************************************************************)
C21_MeterCalls ==
    cyc.op = "update" /\ cyc.outcome = "ok" =>
      /\ MeterCallsAreOfFetchedMeters(cyc)
      /\ \A f \in FetchedBilling(cyc) : \A sp \in ServicePointNumbers(f[2]) :
           /\ CallsFor(cyc, "get_ami_energy_usages", f[1], sp)
                = FlaggedMeters(f[2], sp, FALSE)
           /\ CallsFor(cyc, "get_interval_reads", f[1], sp)
                = FlaggedMeters(f[2], sp, TRUE)

\* a cycle fetched a billing account with a flagged gas meter, an electric
\* meter that is not flagged and a flagged meter without service point, and
\* another with a flagged electric meter
C21_Witness ==
    /\ cyc.op = "update"
    /\ cyc.outcome = "ok"
    /\ \E f \in FetchedBilling(cyc) :
          /\ \E i \in DOMAIN f[2].meter :
                f[2].meter[i] = Meter("SP4", "Electric", FALSE)
          /\ \E i \in DOMAIN f[2].meter :
                f[2].meter[i] = Meter("", "Electric", TRUE)
          /\ CallsFor(cyc, "get_ami_energy_usages", f[1], "SP2") = 1
          /\ CallsFor(cyc, "get_interval_reads", f[1], "SP4") = 0
    /\ CallsFor(cyc, "get_interval_reads", "A1", "SP1") = 1

(***************************************************************************)
(* Vocabulary of the query helpers.                                        *)
(***************************************************************************)
\* the records the snapshot holds for an account under usages or costs
RecordsOf(data, field, account_id) ==
    IF data = None THEN <<>> ELSE Get(data[field], account_id, <<>>)

\* the type name of the API that a fuel label stands for
UsageTypeName(label) == IF label = "Electric" THEN "TOTAL_KWH" ELSE "THERMS"

CostFuelName(label) == IF label = "Electric" THEN "ELECTRIC" ELSE "GAS"

\* positions of the records that a latest-record query is about
Matching(records, usage, fuel_type) ==
    {i \in DOMAIN records :
        \/ fuel_type = None
        \/ /\ fuel_type # None
           /\ IF usage
              THEN records[i].usageType = UsageTypeName(fuel_type.value)
              ELSE records[i].fuelType = CostFuelName(fuel_type.value)}

(***************************************************************************)
(* C22: get_latest_usage(account, fuel) returns None when the snapshot is  *)
(* absent, the account has no records or no record's usageType is the one  *)
(* of the fuel label (Electric: TOTAL_KWH, Gas: THERMS; every record when   *)
(* no fuel is given); otherwise it returns one of the matching records,    *)
(* and no matching record has a greater usageYearMonth.  get_latest_cost   *)
(* does the same with fuelType (ELECTRIC, GAS) and month.                  *)
(***************************************************************************)
C22_LatestRecordByFuel ==
    /\ cyc.op = "query"
    /\ cyc.helper \in {"get_latest_usage", "get_latest_cost"}
    /\ cyc.fuel_type \in {None, Some("Electric"), Some("Gas")}
    => LET usage == cyc.helper = "get_latest_usage"
           records == RecordsOf(selfData, IF usage THEN "usages" ELSE "costs",
                                cyc.account_id)
           matching == Matching(records, usage, cyc.fuel_type)
           KeyOf(i) == IF usage THEN records[i].usageYearMonth
                       ELSE records[i].month
       IN  IF matching = {}
           THEN cyc.result = None
           ELSE \E i \in matching :
                   /\ cyc.result = records[i]
                   /\ \A j \in matching : KeyOf(j) <= KeyOf(i)

\* the latest gas usage was asked of a snapshot whose gas records are not
\* the first ones and not in descending order
C22_Witness ==
    /\ cyc.op = "query"
    /\ cyc.helper = "get_latest_usage"
    /\ cyc.fuel_type = Some("Gas")
    /\ cyc.account_id = "A1"
    /\ RecordsOf(selfData, "usages", "A1")
         = <<Usage("THERMS", 202411), Usage("THERMS", 202412)>>
    /\ cyc.result = Usage("THERMS", 202412)

\* the spelling of a fuel label that the helpers document
Canonical(label) ==
    IF label \in {"Electric", "electric", "ELECTRIC"} THEN "Electric" ELSE "Gas"

FuelSpellings == {"Electric", "electric", "ELECTRIC", "Gas", "gas", "GAS"}

\* what a helper returns for the snapshot
HelperResult(helper, data, account_id, fuel_type) ==
    CASE helper = "get_latest_usage" -> GetLatestUsage(data, account_id, fuel_type)
      [] helper = "get_all_usages" -> GetAllUsages(data, account_id, fuel_type)
      [] helper = "get_latest_cost" -> GetLatestCost(data, account_id, fuel_type)
      [] helper = "get_all_costs" -> GetAllCosts(data, account_id, fuel_type)

\* a helper was asked with one of the spellings of a fuel label
SpelledQuery ==
    /\ cyc.op = "query"
    /\ cyc.fuel_type # None
    /\ cyc.fuel_type.value \in FuelSpellings

(***************************************************************************)
(* C23, as claimed: each of the four helpers returns for 'electric' and    *)
(* 'ELECTRIC' what it returns for 'Electric', and for 'gas' and 'GAS' what *)
(* it returns for 'Gas'.                                                   *)
(***************************************************************************)
C23_FilterIgnoresCase ==
    SpelledQuery =>
        cyc.result = HelperResult(cyc.helper, selfData, cyc.account_id,
                                  Some(Canonical(cyc.fuel_type.value)))

(***************************************************************************)
(* C23, as the code has it: the cost helpers return for every spelling of  *)
(* a label what they return for 'Electric' or 'Gas' (the cost records      *)
(* carry ELECTRIC and GAS).  The usage helpers map the spellings           *)
(* 'Electric' and 'Gas' only: for any other spelling they select the       *)
(* records whose usageType is the upper-cased label itself, which is none  *)
(* of the TOTAL_KWH and THERMS records.                                    *)
(***************************************************************************)
C23_FilterCase ==
    SpelledQuery =>
        LET label == cyc.fuel_type.value
            records == RecordsOf(selfData, "usages", cyc.account_id)
            selected == {i \in DOMAIN records :
                            records[i].usageType = CostFuelName(Canonical(label))}
        IN  IF cyc.helper \in {"get_latest_cost", "get_all_costs"}
                 \/ label = Canonical(label)
            THEN cyc.result = HelperResult(cyc.helper, selfData, cyc.account_id,
                                           Some(Canonical(label)))
            ELSE /\ selected = {}
                 /\ cyc.helper = "get_latest_usage" => cyc.result = None
                 /\ cyc.helper = "get_all_usages" => cyc.result = <<>>

\* all usages were asked for 'electric' of a snapshot that holds electric
\* usage records, and none was returned
C23_Witness ==
    /\ SpelledQuery
    /\ cyc.helper = "get_all_usages"
    /\ cyc.fuel_type = Some("electric")
    /\ cyc.result = <<>>
    /\ GetAllUsages(selfData, cyc.account_id, Some("Electric")) # <<>>

(***************************************************************************)
(* Vocabulary of the config entry.                                         *)
(***************************************************************************)
\* async_setup_entry is at one of its awaits, or has returned True
SetupRunningOrDone ==
    host.state \in {"first_refresh", "import", "forward", "loaded"}

\* async_setup_entry has raised
SetupHasFailed == host.state \in {"setup_error", "setup_retry"}

C30_ImportAfterEveryUpdate ==
    [][ /\ host.state = "loaded"
        /\ cyc'.op = "update"
        /\ cyc'.outcome = "ok"
        /\ polls' = polls + 1
        => /\ imp'.runs >= 1
           /\ store' = ImportAllStatistics(store, now, selfData').store
      ]_vars

\* the unique ids of the entries a step of the flow created
CreatedEntries == DOMAIN flow'.entries \ DOMAIN flow.entries

\* C25: every config entry the flow made has a non-empty selected_accounts;
\* an entry made by the user step is made of the one linked account, an entry
\* made by the selection step of the non-empty selection that was submitted,
\* and an empty selection makes no entry and shows the select_accounts form
\* again with the error no_accounts_selected.
C25_EntriesHaveSelectedAccounts ==
    [][ /\ \A id \in DOMAIN flow'.entries :
              flow'.entries[id].data.selected_accounts # <<>>
        /\ \A id \in CreatedEntries :
              LET selected == flow'.entries[id].data.selected_accounts
              IN  /\ flow'.result.type = "create_entry"
                  /\ IF flow.step = "select_accounts"
                     THEN /\ Len(flow.accounts) # 1
                          /\ flow'.input # <<>>
                          /\ selected = flow'.input
                     ELSE /\ Len(flow'.accounts) = 1
                          /\ selected = <<flow'.accounts[1]>>
        /\ flow.step \in {"none", "finished", "user"} /\ flow'.fetched = ""
              /\ Len(flow'.accounts) = 1
              /\ flow'.result.reason # "already_configured"
              => CreatedEntries # {} /\ flow'.step = "finished"
        /\ flow.step = "select_accounts" /\ flow' # flow /\ flow'.input = <<>>
              => /\ flow'.entries = flow.entries
                 /\ flow'.step = "select_accounts"
                 /\ flow'.result.type = "form"
                 /\ flow'.result.step_id = "select_accounts"
                 /\ flow'.result.errors = "no_accounts_selected"
      ]_vars

\* an entry was made of a selection of two accounts, and a later flow was
\* answered with an empty selection
C25_Witness ==
    /\ \E id \in DOMAIN flow.entries :
          Len(flow.entries[id].data.selected_accounts) = 2
    /\ flow.step = "select_accounts"
    /\ Len(flow.accounts) = 2
    /\ flow.result.errors = "no_accounts_selected"

\* C26: a step of the reauth flow changes the entry only when the fetch of
\* the linked accounts returned; then the username and the password are the
\* ones typed and every other field of the entry is as before; when the fetch
\* raised, the entries are as before and the reauth_confirm form is shown
\* with the error of the exception.
C26_ReauthReplacesCredentialsOnly ==
    [][ flow.step = "reauth_confirm" /\ flow' # flow =>
          LET old == flow.entries[flow.reauth]
              new == flow'.entries[flow.reauth]
          IN  /\ DOMAIN flow'.entries = DOMAIN flow.entries
              /\ \A id \in DOMAIN flow.entries \ {flow.reauth} :
                    flow'.entries[id] = flow.entries[id]
              /\ new.title = old.title
              /\ new.unique_id = old.unique_id
              /\ DOMAIN new.data = DOMAIN old.data
              /\ \A field \in DOMAIN old.data \ {"username", "password"} :
                    new.data[field] = old.data[field]
              /\ IF flow'.fetched = ""
                 THEN /\ new.data.username = flow'.input[1]
                      /\ new.data.password = flow'.input[2]
                      /\ flow'.result.type = "abort"
                      /\ flow'.result.reason = "reauth_successful"
                 ELSE /\ new = old
                      /\ flow'.step = "reauth_confirm"
                      /\ flow'.result.type = "form"
                      /\ flow'.result.step_id = "reauth_confirm"
                      /\ flow'.result.errors =
                           CASE flow'.fetched =
                                  "NationalGridApiClientAuthenticationError"
                                  -> "auth"
                             [] flow'.fetched =
                                  "NationalGridApiClientCommunicationError"
                                  -> "connection"
                             [] flow'.fetched = "NationalGridApiClientError"
                                  -> "unknown"
      ]_vars

\* a reauth flow gave an entry of two selected accounts another user name,
\* after a step of it had failed
C26_Witness ==
    /\ flow.result.reason = "reauth_successful"
    /\ flow.reauth \in DOMAIN flow.entries
    /\ LET entry == flow.entries[flow.reauth]
       IN  /\ entry.data.username # entry.title
           /\ entry.data.password = "pw2"
           /\ Len(entry.data.selected_accounts) = 2

\* the fetch of every selected account of the entry failed in the cycle
EveryAccountFailed(c) ==
    \A a \in Range(SetupEnv.selected) : AccountFailed(c, a)

\* C27: a cycle that ends with an authentication error, or in which the
\* fetch of every selected account failed with a connectivity or provider
\* error, leaves the first-refresh flag set.
C27_FlagKeptWithoutData ==
    [][ /\ isFirstRefresh
        /\ cyc'.op = "update"
        /\ AuthRaised(cyc') \/ EveryAccountFailed(cyc')
        => isFirstRefresh'
      ]_vars

\* the calls of the cycle were asked with the windows of that mode
CallsInMode(c, clock, first) ==
    \A i \in DOMAIN c.calls :
      LET call == c.calls[i]
          today == clock \div (24 * 4)
      IN  /\ call.first = first
          /\ call.api = "get_energy_usages" =>
                call.window.from_month =
                   IF first THEN YearMonthOf(today - 465)
                   ELSE YearMonthOf(today) - 100
          /\ call.api = "get_ami_energy_usages" =>
                /\ call.window.date_from =
                      IF first THEN today - 1825 ELSE today - 2
                /\ call.window.date_to = IF first THEN today - 3 ELSE today
          /\ call.api = "get_interval_reads" =>
                call.window.start_datetime =
                   IF first THEN clock - 1825 * 24 * 4 ELSE clock - 24 * 4

\* C28: reset_to_first_refresh sets the flag and the flag stays set until a
\* polling cycle; the cycle that starts with the flag set asks with the
\* historical windows and, when it returns, its snapshot is flagged
\* is_first_refresh and the flag is cleared; the cycle after it asks with
\* the incremental windows; an import of a flagged snapshot has no cutoff.
C28_ResetRestoresFirstRefresh ==
    [][ /\ cyc'.op = "reset" => isFirstRefresh'
        /\ isFirstRefresh /\ polls' = polls => isFirstRefresh'
        /\ polls' = polls + 1 =>
              /\ cyc'.op = "update"
              /\ CallsInMode(cyc', now, isFirstRefresh)
              /\ cyc'.outcome = "ok" =>
                    /\ selfData'.is_first_refresh = isFirstRefresh
                    /\ ~isFirstRefresh'
        /\ ImportStep /\ selfData # None /\ selfData.is_first_refresh =>
              /\ \A k \in DOMAIN imp'.upserts :
                    /\ imp'.upserts[k].first
                    /\ imp'.upserts[k].cutoff_ts = 0
              /\ \A sp \in (DOMAIN selfData.ami_usages)
                              \cap (DOMAIN selfData.meters) :
                    \A i \in DOMAIN selfData.ami_usages[sp] :
                      LET r == selfData.ami_usages[sp][i]
                          id == HourlySeriesOf(selfData, sp, r)
                      IN  /\ ValidDate(r.date)
                          /\ r.date < now - CutoffHours * QuartersPerHour
                          /\ \A p \in Points(store, id) :
                                HourStart(r.date) > p.start
                          => Wrote(imp', id, HourStart(r.date))
      ]_vars

\* the second cycle ran after a reset: it asked with the historical windows,
\* its snapshot is flagged, the flag is cleared again, and the import of the
\* snapshot wrote a reading older than 48 hours
C28_Witness ==
    /\ polls = 2
    /\ cyc.op = "update"
    /\ cyc.outcome = "ok"
    /\ cyc.calls # <<>>
    /\ \A i \in DOMAIN cyc.calls : cyc.calls[i].first
    /\ selfData # None
    /\ selfData.is_first_refresh
    /\ ~isFirstRefresh
    /\ imp.runs >= 1
    /\ \E k \in DOMAIN imp.upserts :
          /\ imp.upserts[k].cutoff_ts = 0
          /\ \E j \in DOMAIN imp.upserts[k].stats :
                imp.upserts[k].stats[j].start
                   < now - CutoffHours * QuartersPerHour

\* C29: after the import of a snapshot flagged is_first_refresh (the one a
\* reset and a refresh make), every well-dated reading of the snapshot has
\* its hour in its series, also when the series held later points before.
C29_ResetRecoversGaps ==
    [][ ImportStep /\ selfData # None /\ selfData.is_first_refresh =>
          /\ \A sp \in (DOMAIN selfData.ami_usages)
                          \cap (DOMAIN selfData.meters) :
                \A i \in DOMAIN selfData.ami_usages[sp] :
                  LET r == selfData.ami_usages[sp][i]
                  IN  ValidDate(r.date) =>
                        HourStart(r.date)
                           \in StartsOf(store', HourlySeriesOf(selfData, sp, r))
          /\ \A sp \in (DOMAIN selfData.interval_reads)
                          \cap ElectricServicePoints(selfData) :
                \A i \in DOMAIN selfData.interval_reads[sp] :
                  LET r == selfData.interval_reads[sp][i]
                  IN  ValidDate(r.startTime) =>
                        HourStart(r.startTime)
                           \in StartsOf(store',
                                        IntervalSeriesOf(sp, r.value < 0))
      ]_vars

\* the statistic ids the importer writes for a service point
ImporterIds(sp) ==
    {StatisticId(sp, variant) : variant \in HourlyVariants \cup IntervalVariants}

\* C31: after async_remove_entry no series that the importer wrote for a
\* meter of the entry's snapshot is left in the store.
C31_RemoveClearsImportedSeries ==
    host.state = "removed" /\ selfData # None =>
        \A sp \in DOMAIN selfData.meters :
            \A id \in ImporterIds(sp) : Points(store, id) = {}

\* the AMI and interval calls of a cycle
AmiCalls(c) ==
    {i \in DOMAIN c.calls :
        c.calls[i].api \in {"get_ami_energy_usages", "get_interval_reads"}}

\* C32: the snapshot a cycle returns has is_first_refresh equal to the flag
\* at the start of the cycle; every AMI and interval call of the cycle was
\* made in that mode, with the windows of that mode; a cycle that returns
\* clears the flag and only a reset sets it, so that the cycle that follows
\* one that returned a flagged snapshot, without a reset between, returns a
\* snapshot that is not flagged.
C32_SnapshotFlagIsCycleMode ==
    [][ cyc'.op = "update" =>
          /\ \A i \in AmiCalls(cyc') : cyc'.calls[i].first = isFirstRefresh
          /\ CallsInMode(cyc', now, isFirstRefresh)
          /\ cyc'.outcome = "ok" =>
                /\ selfData'.is_first_refresh = isFirstRefresh
                /\ ~isFirstRefresh'
                /\ cyc.op = "update" /\ cyc.outcome = "ok"
                      /\ selfData.is_first_refresh
                      => ~selfData'.is_first_refresh
          /\ ~isFirstRefresh => ~isFirstRefresh'
      ]_vars

\* a cycle made AMI and interval calls for two accounts in the first-refresh
\* mode, returned a flagged snapshot and cleared the flag
C32_Witness ==
    /\ cyc.op = "update"
    /\ cyc.outcome = "ok"
    /\ selfData.is_first_refresh
    /\ ~isFirstRefresh
    /\ \E i \in AmiCalls(cyc) : \E j \in AmiCalls(cyc) :
          /\ cyc.calls[i].acct # cyc.calls[j].acct
          /\ cyc.calls[i].first
          /\ cyc.calls[j].api = "get_interval_reads"

\* C33: a cycle that ends with ConfigEntryAuthFailed leaves the published
\* snapshot, _last_update_success and the first-refresh flag as they were.
C33_AuthAbortChangesNothing ==
    [][ /\ polls' = polls + 1
        /\ cyc'.outcome = "ConfigEntryAuthFailed"
        => /\ selfData' = selfData
           /\ lastUpdateSuccess' = lastUpdateSuccess
           /\ isFirstRefresh' = isFirstRefresh
      ]_vars

\* a cycle fetched account A1 and was then aborted by the authentication
\* error of account A2, with a snapshot of an earlier cycle published
C33_Witness ==
    /\ cyc.op = "update"
    /\ cyc.outcome = "ConfigEntryAuthFailed"
    /\ selfData # None
    /\ "A2" \in DOMAIN selfData.accounts
    /\ Len(cyc.calls) >= 2
    /\ cyc.calls[1].exc = ""
    /\ cyc.calls[Len(cyc.calls)].acct = "A2"
    /\ AuthRaised(cyc)

\* C34: in every published snapshot each meter entry names an account of
\* the accounts map and holds the billing account stored under that key.
C34_MetersMatchAccounts ==
    selfData # None =>
        \A sp \in DOMAIN selfData.meters :
            LET entry == selfData.meters[sp]
            IN  /\ entry.account_id \in DOMAIN selfData.accounts
                /\ entry.billing_account = selfData.accounts[entry.account_id]

\* every exception an API call of the cycle raised is a CannotConnectError,
\* a RetryExhaustedError or a NationalGridError, and none an InvalidAuthError
OnlyProviderErrors(c) ==
    \A i \in DOMAIN c.calls :
        c.calls[i].exc \in {"", "CannotConnectError", "RetryExhaustedError",
                            "NationalGridError"}

IntervalSeriesIds ==
    {StatisticId(sp, variant) : sp \in ServicePointNames,
                                variant \in IntervalVariants}

\* the starts of the list are top-of-hour times in strictly increasing order
StrictlyIncreasingHours(stats) ==
    /\ \A j \in DOMAIN stats : stats[j].start = HourStart(stats[j].start)
    /\ \A j \in DOMAIN stats : \A k \in DOMAIN stats :
          j < k => stats[j].start < stats[k].start

\* C36 as stated: every point list passed to the store is in strictly
\* increasing order of pairwise distinct top-of-hour starts.
C36_UpsertsStrictlyIncreasing ==
    \A k \in DOMAIN imp.upserts : StrictlyIncreasingHours(imp.upserts[k].stats)

\* C36 as the importer does it: every start of a point list is a top-of-hour
\* time later than the last stored point; the list of an interval series is
\* in strictly increasing order of distinct starts; the list of an hourly
\* series holds one point per reading kept, in the order of the dates, so
\* that readings of one hour give successive points of the same start.
C36_UpsertOrder ==
    \A k \in DOMAIN imp.upserts :
      LET u == imp.upserts[k]
      IN  /\ \A j \in DOMAIN u.stats :
                /\ u.stats[j].start = HourStart(u.stats[j].start)
                /\ u.stats[j].start > u.last_ts
          /\ \A i \in DOMAIN u.stats : \A j \in DOMAIN u.stats :
                i < j => u.stats[i].start <= u.stats[j].start
          /\ u.statistic_id \in IntervalSeriesIds =>
                StrictlyIncreasingHours(u.stats)

\* an import passed an hourly list with two points of one hour, and an
\* interval list of two hours made of three reads
C36_Witness ==
    /\ \E k \in DOMAIN imp.upserts :
          LET u == imp.upserts[k]
          IN  /\ u.statistic_id \notin IntervalSeriesIds
              /\ \E j \in DOMAIN u.stats :
                    /\ j + 1 \in DOMAIN u.stats
                    /\ u.stats[j].start = u.stats[j + 1].start
    /\ \E k \in DOMAIN imp.upserts :
          LET u == imp.upserts[k]
          IN  /\ u.statistic_id \in IntervalSeriesIds
              /\ Len(u.stats) = 2
              /\ u.stats[1].state = 3

\* what the points of one start of a list amount to
StateAt(stats, start) ==
    Total([j \in DOMAIN stats |->
             IF stats[j].start = start THEN stats[j].state ELSE 0])

\* what the AMI readings of one hour amount to in a series, each entry of
\* the list counted once: gas takes every reading, converted; an electric
\* series takes the readings of its direction
AmiHourTotal(readings, hour, is_gas, return) ==
    Total([i \in DOMAIN readings |->
             IF /\ ValidDate(readings[i].date)
                /\ HourStart(readings[i].date) = hour
                /\ is_gas \/ InDirection(readings[i].quantity, return)
             THEN IF is_gas THEN ThermsToCcf(readings[i].quantity)
                  ELSE Abs(readings[i].quantity)
             ELSE 0])

\* the hourly series of a service point of the snapshot
HourlyIdOf(data, sp, return) ==
    IF data.meters[sp].meter.fuelType = "Gas"
    THEN StatisticId(sp, "gas_hourly_usage")
    ELSE IF return THEN StatisticId(sp, "electric_return_hourly_usage")
    ELSE StatisticId(sp, "electric_hourly_usage")

\* C37: an import writes no point for an hour the series already holds, so
\* a reading that an earlier import counted is not counted by a later one
\* (the snapshot may hold it again, fetched again or kept from an earlier
\* cycle); and what an import adds to a series for one hour is at most what
\* the readings of that hour in the snapshot amount to, each counted once.
C37_ReadingCountedOnce ==
    [][ ImportStep /\ selfData # None =>
          /\ \A k \in DOMAIN imp'.upserts :
                LET u == imp'.upserts[k]
                IN  /\ \A j \in DOMAIN u.stats :
                          u.stats[j].start \notin StartsOf(store, u.statistic_id)
                    /\ UpsertsOf(imp', u.statistic_id) = {k}
                    /\ StoredSum(store', u.statistic_id)
                          = StoredSum(store, u.statistic_id)
                            + SumOfStates(u.stats)
          /\ \A id \in DOMAIN store' :
                UpsertsOf(imp', id) = {} =>
                    StoredSum(store', id) = StoredSum(store, id)
          /\ \A sp \in (DOMAIN selfData.ami_usages)
                          \cap (DOMAIN selfData.meters) :
                \A return \in BOOLEAN :
                  LET id == HourlyIdOf(selfData, sp, return)
                      is_gas == selfData.meters[sp].meter.fuelType = "Gas"
                  IN  \A k \in UpsertsOf(imp', id) :
                        \A j \in DOMAIN imp'.upserts[k].stats :
                          LET hour == imp'.upserts[k].stats[j].start
                          IN  StateAt(imp'.upserts[k].stats, hour)
                                = AmiHourTotal(selfData.ami_usages[sp], hour,
                                               is_gas, return)
          /\ \A sp \in DOMAIN selfData.interval_reads :
                \A return \in BOOLEAN :
                  \A k \in UpsertsOf(imp', IntervalSeriesOf(sp, return)) :
                    \A j \in DOMAIN imp'.upserts[k].stats :
                      LET hour == imp'.upserts[k].stats[j].start
                      IN  StateAt(imp'.upserts[k].stats, hour)
                            = HourTotal(selfData.interval_reads[sp], hour,
                                        return)
      ]_vars

\* the second import of a run found in the snapshot readings that the first
\* had counted, next to newer ones, and wrote the newer ones only
C37_Witness ==
    /\ imp.runs >= 1
    /\ selfData # None
    /\ polls = 2
    /\ \E k \in DOMAIN imp.upserts :
         LET u == imp.upserts[k]
         IN  /\ u.statistic_id = StatisticId("SP1", "electric_hourly_usage")
             /\ u.last_sum = 8
             /\ u.last_ts = 8
             /\ Len(u.stats) = 1
             /\ u.stats[1].sum = 10
             /\ \E i \in DOMAIN selfData.ami_usages["SP1"] :
                   selfData.ami_usages["SP1"][i] = AmiReading(8, 5)

\* the state of the point stored for an hour of a series, 0 when none is
StoredState(st, statistic_id, hour) ==
    LET rows == {r \in Points(st, statistic_id) : r.start = hour}
    IN  IF rows = {} THEN 0 ELSE (CHOOSE r \in rows : TRUE).state

\* C38: once the importer has run on a snapshot, every well-dated interval
\* read of the snapshot is counted in its series: the point of its hour is
\* stored and amounts to no less than the reads of that hour and direction
\* that the snapshot holds, also when the hour had been written before the
\* read arrived.
C38_NoIntervalReadLost ==
    [][ ImportStep /\ selfData # None =>
          \A sp \in DOMAIN selfData.interval_reads :
            \A i \in DOMAIN selfData.interval_reads[sp] :
              LET reads == selfData.interval_reads[sp]
                  return == reads[i].value < 0
                  hour == HourStart(reads[i].startTime)
                  id == IntervalSeriesOf(sp, return)
              IN  ValidDate(reads[i].startTime) =>
                    /\ hour \in StartsOf(store', id)
                    /\ StoredState(store', id, hour)
                          >= HourTotal(reads, hour, return)
      ]_vars

\* the ids of the four electric series of the service points
ElectricSeriesIds ==
    {StatisticId(sp, variant) :
        sp \in ServicePointNames,
        variant \in (HourlyVariants \cup IntervalVariants) \ {"gas_hourly_usage"}}

\* the sum that precedes point j of an upsert
SumBefore(u, j) == IF j = 1 THEN u.last_sum ELSE u.stats[j - 1].sum

\* C39: the cumulative sum of an electric series never decreases: in every
\* upsert each state is non-negative and each sum is no less than the sum
\* before it, the first one no less than the sum stored before the import,
\* and in the store a later point never has a smaller sum.
C39_ElectricSumsNeverDecrease ==
    [][ ImportStep =>
          /\ \A k \in DOMAIN imp'.upserts :
               LET u == imp'.upserts[k]
               IN  u.statistic_id \in ElectricSeriesIds =>
                     /\ u.last_sum = StoredSum(store, u.statistic_id)
                     /\ \A j \in DOMAIN u.stats :
                          /\ u.stats[j].state >= 0
                          /\ u.stats[j].sum >= SumBefore(u, j)
          /\ \A id \in ElectricSeriesIds :
               /\ StoredSum(store', id) >= StoredSum(store, id)
               /\ \A p, q \in Points(store', id) :
                    p.start < q.start => p.sum <= q.sum
      ]_vars

\* a returned (negative) quantity was added to a return series that already
\* held points, and an interval series was extended in the same run
C39_Witness ==
    /\ \E k \in DOMAIN imp.upserts :
         /\ imp.upserts[k].statistic_id
               = StatisticId("SP1", "electric_return_hourly_usage")
         /\ imp.upserts[k].stats # <<>>
    /\ \E k \in DOMAIN imp.upserts :
         /\ imp.upserts[k].statistic_id \in IntervalSeriesIds
         /\ imp.upserts[k].last_sum > 0
         /\ imp.upserts[k].stats # <<>>

\* the id of an hourly series of a service point
HourlyId(sp, variant) == StatisticId(sp, variant)

\* point j of the upsert comes from a well-dated reading of its hour whose
\* quantity, as the series takes it, is the state of the point
FromReading(point, readings, is_gas, return) ==
    \E i \in DOMAIN readings :
        /\ ValidDate(readings[i].date)
        /\ HourStart(readings[i].date) = point.start
        /\ point.state = IF is_gas THEN ThermsToCcf(readings[i].quantity)
                         ELSE IF return THEN Abs(readings[i].quantity)
                         ELSE readings[i].quantity
        /\ is_gas \/ (return <=> readings[i].quantity < 0)

\* every point written to the series in this run comes from the readings
UpsertsFrom(run, id, readings, is_gas, return) ==
    \A k \in UpsertsOf(run, id) :
        \A j \in DOMAIN run.upserts[k].stats :
            FromReading(run.upserts[k].stats[j], readings, is_gas, return)

\* C40: in a run of the importer the AMI readings of a service point without
\* an entry in meters cause no read and no write of an hourly series; those
\* of a meter of fuel type Gas go, converted, to the gas series alone; those
\* of a meter of any other fuel type go, unconverted, to the electric
\* consumption and return series alone.
C40_MeterEntrySelectsSeries ==
    [][ ImportStep /\ selfData # None =>
          \A sp \in DOMAIN selfData.ami_usages :
            LET readings == selfData.ami_usages[sp]
                gas == HourlyId(sp, "gas_hourly_usage")
                used == HourlyId(sp, "electric_hourly_usage")
                returned == HourlyId(sp, "electric_return_hourly_usage")
                Touched(id) == \/ id \in Range(imp'.reads)
                               \/ UpsertsOf(imp', id) # {}
                               \/ Points(store', id) # Points(store, id)
            IN  IF sp \notin DOMAIN selfData.meters
                THEN ~Touched(gas) /\ ~Touched(used) /\ ~Touched(returned)
                ELSE IF selfData.meters[sp].meter.fuelType = "Gas"
                THEN /\ gas \in Range(imp'.reads)
                     /\ ~Touched(used) /\ ~Touched(returned)
                     /\ UpsertsFrom(imp', gas, readings, TRUE, FALSE)
                ELSE /\ ~Touched(gas)
                     /\ used \in Range(imp'.reads)
                     /\ returned \in Range(imp'.reads)
                           <=> \E i \in DOMAIN readings : readings[i].quantity < 0
                     /\ UpsertsFrom(imp', used, readings, FALSE, FALSE)
                     /\ UpsertsFrom(imp', returned, readings, FALSE, TRUE)
      ]_vars

\* the importer has run on a snapshot with readings for a service point
\* that has no meter entry, for a gas meter and for a meter of another fuel
\* type that is not "Electric", and has written the gas and electric series
C40_Witness ==
    /\ imp.runs >= 1
    /\ selfData # None
    /\ "SP_UNKNOWN" \in DOMAIN selfData.ami_usages
    /\ DOMAIN selfData.meters = {"SP1", "SP2"}
    /\ selfData.meters["SP1"].meter.fuelType = "Gas"
    /\ selfData.meters["SP2"].meter.fuelType = "gas"
    /\ UpsertsOf(imp, HourlyId("SP1", "gas_hourly_usage")) # {}
    /\ UpsertsOf(imp, HourlyId("SP2", "electric_hourly_usage")) # {}
    /\ UpsertsOf(imp, HourlyId("SP2", "electric_return_hourly_usage")) # {}

====
